---------------------------- MODULE Spec2Model ----------------------------
(***************************************************************************)
(* Variable to CSS (Figma plugin, code.ts v1.7): the generate-css handler  *)
(* and the CSS emission pass, as a state machine.                          *)
(*                                                                         *)
(* Representation.                                                         *)
(*  - A string is a sequence of one-character strings, so that toLowerCase,*)
(*    indexOf, the regular expressions and the replace chain are computed  *)
(*    character by character as the code computes them.                    *)
(*  - A FLOAT raw value is an integer number of thousandths; round(v, 2)   *)
(*    yields hundredths, round(slope * 100, 4) yields ten-thousandths of a *)
(*    vw.  Arithmetic is exact (rational), Math.round is floor(x + 1/2).   *)
(*  - The generated stylesheet is the sequence of its section headers,     *)
(*    block openers and declarations; comment lines, blank lines and       *)
(*    closing braces are left out.  Every declaration also carries the id  *)
(*    of the variable and the mode it was formatted from (src, mode),      *)
(*    which the text does not show but the properties speak about.         *)
(***************************************************************************)
EXTENDS Integers, Sequences, FiniteSets, TLC

(***************************************************************************)
(* Characters and strings                                                  *)
(***************************************************************************)
UpperChars == <<"A", "B", "C", "D", "E", "F", "G", "H", "I", "J", "K", "L", "M", "N", "O", "P", "Q", "R", "S", "T", "U", "V", "W", "X", "Y", "Z">>
LowerChars == <<"a", "b", "c", "d", "e", "f", "g", "h", "i", "j", "k", "l", "m", "n", "o", "p", "q", "r", "s", "t", "u", "v", "w", "x", "y", "z">>
DigitChars == <<"0", "1", "2", "3", "4", "5", "6", "7", "8", "9">>

Range(s) == { s[i] : i \in DOMAIN s }

IsUpper(c) == c \in Range(UpperChars)
IsLower(c) == c \in Range(LowerChars)
IsDigit(c) == c \in Range(DigitChars)
\* [A-Za-z]
IsLetter(c) == IsUpper(c) \/ IsLower(c)
\* \s (the names of the model hold no other white space than the blank)
IsSpace(c) == c = " "

toLowerChar(c) ==
  IF IsUpper(c) THEN LowerChars[CHOOSE i \in DOMAIN UpperChars : UpperChars[i] = c] ELSE c

\* String.prototype.toLowerCase
toLowerCase(s) == [i \in DOMAIN s |-> toLowerChar(s[i])]

\* s.indexOf(k) === 0
StartsWith(s, k) == Len(k) <= Len(s) /\ SubSeq(s, 1, Len(k)) = k

\* s.indexOf(k, from) with 1-based positions; 0 stands for -1
indexOfFrom(s, k, from) ==
  LET hits == { i \in from..(Len(s) - Len(k) + 1) : SubSeq(s, i, i + Len(k) - 1) = k }
  IN  IF hits = {} THEN 0 ELSE CHOOSE i \in hits : \A j \in hits : i <= j

\* s.indexOf(k) !== -1
Contains(s, k) == indexOfFrom(s, k, 1) # 0

\* String.prototype.trim
RECURSIVE trimLeft(_)
trimLeft(s) == IF s # <<>> /\ IsSpace(Head(s)) THEN trimLeft(Tail(s)) ELSE s
RECURSIVE trimRight(_)
trimRight(s) ==
  IF s # <<>> /\ IsSpace(s[Len(s)]) THEN trimRight(SubSeq(s, 1, Len(s) - 1)) ELSE s
trim(s) == trimRight(trimLeft(s))

KW_foundation == <<"f", "o", "u", "n", "d", "a", "t", "i", "o", "n">>
KW_extended == <<"e", "x", "t", "e", "n", "d", "e", "d">>
KW_2_1 == <<"2", ".", "1">>
KW_alias == <<"a", "l", "i", "a", "s">>
KW_mapping == <<"m", "a", "p", "p", "i", "n", "g">>
KW_desktop == <<"d", "e", "s", "k", "t", "o", "p">>
KW_laptop == <<"l", "a", "p", "t", "o", "p">>
KW_tablet == <<"t", "a", "b", "l", "e", "t">>
KW_mobile == <<"m", "o", "b", "i", "l", "e">>
KW_light == <<"l", "i", "g", "h", "t">>
KW_dark == <<"d", "a", "r", "k">>
KW_proportion == <<"p", "r", "o", "p", "o", "r", "t", "i", "o", "n">>
KW_viewport == <<"v", "i", "e", "w", "p", "o", "r", "t">>
KW_oblique_sp == <<"o", "b", "l", "i", "q", "u", "e", " ">>

(***************************************************************************)
(* Collection and mode classification                                      *)
(***************************************************************************)

\* The longest prefix of s made of letters: the greedy group ([A-Za-z]+).
RECURSIVE letterPrefixLen(_)
letterPrefixLen(s) ==
  IF s # <<>> /\ IsLetter(Head(s)) THEN 1 + letterPrefixLen(Tail(s)) ELSE 0

\* name.match(/^([A-Za-z]+)\s*-\s*(.+)$/): the letters, white space, a hyphen
\* and at least one more character.  matched, and the two groups.
collectionNameMatch(name) ==
  LET k    == letterPrefixLen(name)
      rest == trimLeft(SubSeq(name, k + 1, Len(name)))
  IN  IF k >= 1 /\ Len(rest) >= 2 /\ Head(rest) = "-"
        THEN [matched |-> TRUE, g1 |-> SubSeq(name, 1, k), g2 |-> Tail(rest)]
        ELSE [matched |-> FALSE, g1 |-> <<>>, g2 |-> <<>>]

parseCollectionName(name) ==
  LET match     == collectionNameMatch(name)
      lowerName == toLowerCase(name)
  IN  [ domain |-> IF match.matched THEN toLowerCase(match.g1) ELSE lowerName,
        layer  |-> IF match.matched THEN trim(match.g2)
                   ELSE <<"d", "e", "f", "a", "u", "l", "t">>,
        layerType |->
          IF Contains(lowerName, KW_foundation) THEN "foundations"
          ELSE IF Contains(lowerName, KW_extended) \/ Contains(lowerName, KW_2_1)
            THEN "aliases-extended"
          ELSE IF Contains(lowerName, KW_alias) THEN "aliases"
          ELSE IF Contains(lowerName, KW_mapping) THEN "mappings"
          ELSE "other" ]

\* The keys of BREAKPOINT_MODES in insertion order, with their keywords.
BreakpointKeys == <<"desktop", "laptop", "tablet", "mobile">>
BreakpointKeyword(key) ==
  CASE key = "desktop" -> KW_desktop
    [] key = "laptop"  -> KW_laptop
    [] key = "tablet"  -> KW_tablet
    [] key = "mobile"  -> KW_mobile

DesktopPx == 1680
LaptopPx == 1366
TabletPx == 840
MobilePx == 480

\* The module-level table as the script leaves it after loading.
BREAKPOINT_MODES_INITIAL ==
  [key \in Range(BreakpointKeys) |->
     CASE key = "desktop" -> DesktopPx
       [] key = "laptop"  -> LaptopPx
       [] key = "tablet"  -> TabletPx
       [] key = "mobile"  -> MobilePx]

THEME_MODES == <<KW_light, KW_dark>>

\* detectBreakpoint reads the table bp (the global BREAKPOINT_MODES at the
\* time of the call).  0 stands for undefined: no caller tells them apart
\* (`=== undefined` is asked only here below, `|| 0` in generateBreakpointCSS).
detectBreakpointKey(modeName) ==
  LET lower == toLowerCase(modeName)
      hits  == { i \in DOMAIN BreakpointKeys :
                   Contains(lower, BreakpointKeyword(BreakpointKeys[i])) }
  IN  IF hits = {} THEN "none"
      ELSE BreakpointKeys[CHOOSE i \in hits : \A j \in hits : i <= j]

detectBreakpoint(bp, modeName) ==
  LET key == detectBreakpointKey(modeName)
  IN  IF key = "none" THEN [defined |-> FALSE, px |-> 0]
      ELSE [defined |-> TRUE, px |-> bp[key]]

\* modes: the ModeInfo list, breakpointPx being the record of detectBreakpoint
\* The classification with single kept for collections of one mode.
detectModeTypeSingleOnlyForOne(modes) ==
  IF Len(modes) = 1 THEN "single"
  ELSE IF \A i \in DOMAIN modes : modes[i].breakpointPx.defined THEN "breakpoint"
  ELSE "theme"

detectModeType(modes) ==
  IF Len(modes) = 1 THEN "single"
  ELSE IF \A i \in DOMAIN modes : modes[i].breakpointPx.defined THEN "breakpoint"
  ELSE IF \E i \in DOMAIN modes : \E j \in DOMAIN THEME_MODES :
            Contains(toLowerCase(modes[i].name), THEME_MODES[j]) THEN "theme"
  ELSE "single"

(***************************************************************************)
(* Names: generateCSSName and the name-driven detectors                    *)
(***************************************************************************)
Hyphen == "-"

\* [a-z0-9-]
IsCssChar(c) == IsLower(c) \/ IsDigit(c) \/ c = Hyphen

\* .replace(/\//g,'-').replace(/\./g,'-').replace(/,/g,'-')
\* .replace(/\s+/g,'-').replace(/[^a-z0-9-]/g,'-'):
\* a run of white space becomes one hyphen, any other character outside
\* [a-z0-9-] becomes a hyphen of its own.
RECURSIVE replaceSeparators(_)
replaceSeparators(s) ==
  IF s = <<>> THEN <<>>
  ELSE IF IsSpace(Head(s)) THEN <<Hyphen>> \o replaceSeparators(trimLeft(s))
  ELSE IF IsCssChar(Head(s)) THEN <<Head(s)>> \o replaceSeparators(Tail(s))
  ELSE <<Hyphen>> \o replaceSeparators(Tail(s))

RECURSIVE hyphenRunLen(_)
hyphenRunLen(s) == IF s # <<>> /\ Head(s) = Hyphen THEN 1 + hyphenRunLen(Tail(s)) ELSE 0

\* .replace(/-{3,}/g, '--')
RECURSIVE collapseHyphens(_)
collapseHyphens(s) ==
  IF s = <<>> THEN <<>>
  ELSE LET n == hyphenRunLen(s)
       IN  IF n = 0 THEN <<Head(s)>> \o collapseHyphens(Tail(s))
           ELSE (IF n >= 3 THEN <<Hyphen, Hyphen>> ELSE SubSeq(s, 1, n))
                \o collapseHyphens(SubSeq(s, n + 1, Len(s)))

\* .replace(/^-+|-+$/g, '')
RECURSIVE trimHyphensLeft(_)
trimHyphensLeft(s) == IF s # <<>> /\ Head(s) = Hyphen THEN trimHyphensLeft(Tail(s)) ELSE s
RECURSIVE trimHyphensRight(_)
trimHyphensRight(s) ==
  IF s # <<>> /\ s[Len(s)] = Hyphen THEN trimHyphensRight(SubSeq(s, 1, Len(s) - 1)) ELSE s
trimHyphens(s) == trimHyphensRight(trimHyphensLeft(s))

slug(varName) ==
  trimHyphens(collapseHyphens(replaceSeparators(toLowerCase(varName))))

commonDomains ==
  << <<"t", "y", "p", "o">>,
     <<"s", "p", "a", "c", "e">>,
     <<"c", "o", "l", "o", "r">>,
     <<"d", "i", "m", "e", "n", "s", "i", "o", "n">>,
     <<"s", "t", "a", "t", "i", "c">>,
     <<"s", "i", "z", "e">>,
     <<"r", "a", "d", "i", "u", "s">>,
     <<"b", "o", "r", "d", "e", "r">> >>

generateCSSName(varName, domain, layerType) ==
  LET cssName  == slug(varName)
      prefixed == domain \o <<Hyphen>> \o cssName
      dashes   == <<Hyphen, Hyphen>>
  IN  IF layerType = "mappings" THEN dashes \o cssName
      ELSE IF layerType \in {"foundations", "aliases", "aliases-extended"}
        THEN IF ~StartsWith(cssName, domain \o <<Hyphen>>) /\ cssName # domain
               THEN dashes \o prefixed
               ELSE dashes \o cssName
      ELSE LET hasExistingDomain ==
                 \E i \in DOMAIN commonDomains :
                    StartsWith(cssName, commonDomains[i] \o <<Hyphen>>)
           IN  IF ~hasExistingDomain /\ ~StartsWith(cssName, domain \o <<Hyphen>>)
                 THEN dashes \o prefixed
                 ELSE dashes \o cssName

UNITLESS_KEYWORDS ==
  << <<"w", "e", "i", "g", "h", "t">>,
     <<"c", "o", "l", "u", "m", "n", "-", "c", "o", "u", "n", "t">>,
     <<"c", "o", "l", "u", "m", "n", " ", "c", "o", "u", "n", "t">>,
     <<"c", "o", "l", "u", "m", "n", "c", "o", "u", "n", "t">>,
     <<"o", "p", "a", "c", "i", "t", "y">>,
     <<"z", "-", "i", "n", "d", "e", "x">>,
     <<"z", "i", "n", "d", "e", "x">>,
     <<"z", " ", "i", "n", "d", "e", "x">>,
     <<"o", "r", "d", "e", "r">>,
     <<"f", "l", "e", "x", "-", "g", "r", "o", "w">>,
     <<"f", "l", "e", "x", "-", "s", "h", "r", "i", "n", "k">>,
     <<"f", "l", "e", "x", " ", "g", "r", "o", "w">>,
     <<"f", "l", "e", "x", " ", "s", "h", "r", "i", "n", "k">>,
     <<"r", "a", "t", "i", "o">>,
     <<"c", "o", "l", "u", "m", "n", "s">>,
     <<"r", "o", "w", "s">>,
     <<"c", "o", "u", "n", "t">> >>

\* '-/. '.indexOf(c) !== -1
IsSegmentSeparator(c) == c \in {"-", "/", ".", " "}

\* Some occurrence of keyword in text is bounded on both sides by a separator
\* or by the end of the text (the while loop tries every occurrence).
matchesAsSegment(text, keyword) ==
  \E idx \in 1..(Len(text) - Len(keyword) + 1) :
     /\ SubSeq(text, idx, idx + Len(keyword) - 1) = keyword
     /\ (idx = 1 \/ IsSegmentSeparator(text[idx - 1]))
     /\ (idx + Len(keyword) - 1 = Len(text)
           \/ IsSegmentSeparator(text[idx + Len(keyword)]))

isUnitlessName(name, cssName) ==
  LET nameLower    == toLowerCase(name)
      cssNameLower == toLowerCase(cssName)
  IN  \E i \in DOMAIN UNITLESS_KEYWORDS :
         \/ matchesAsSegment(nameLower, UNITLESS_KEYWORDS[i])
         \/ matchesAsSegment(cssNameLower, UNITLESS_KEYWORDS[i])

PROPORTION_COLUMNS ==
  << [patterns |-> << <<"t", "h", "r", "e", "e", "-", "q", "u", "a", "r", "t", "e", "r", "s">>, <<"t", "h", "r", "e", "e", " ", "q", "u", "a", "r", "t", "e", "r", "s">>, <<"t", "h", "r", "e", "e", "q", "u", "a", "r", "t", "e", "r", "s">>, <<"t", "h", "r", "e", "e", "-", "q", "u", "a", "r", "t", "e", "r">>, <<"t", "h", "r", "e", "e", " ", "q", "u", "a", "r", "t", "e", "r">>, <<"t", "h", "r", "e", "e", "q", "u", "a", "r", "t", "e", "r">> >>, columns |-> 9],
     [patterns |-> << <<"t", "w", "o", "-", "t", "h", "i", "r", "d", "s">>, <<"t", "w", "o", " ", "t", "h", "i", "r", "d", "s">>, <<"t", "w", "o", "t", "h", "i", "r", "d", "s">>, <<"t", "w", "o", "-", "t", "h", "i", "r", "d">>, <<"t", "w", "o", " ", "t", "h", "i", "r", "d">>, <<"t", "w", "o", "t", "h", "i", "r", "d">> >>, columns |-> 8],
     [patterns |-> << <<"q", "u", "a", "r", "t", "e", "r">> >>, columns |-> 3],
     [patterns |-> << <<"w", "h", "o", "l", "e">> >>, columns |-> 12],
     [patterns |-> << <<"t", "h", "i", "r", "d">> >>, columns |-> 4],
     [patterns |-> << <<"h", "a", "l", "f">> >>, columns |-> 6] >>

\* The lookup with the table searched from its last entry to its first.
getProportionColumnCountShortestFirst(name) ==
  LET nameLower == toLowerCase(name)
      hits == { i \in DOMAIN PROPORTION_COLUMNS :
                  \E j \in DOMAIN PROPORTION_COLUMNS[i].patterns :
                     Contains(nameLower, PROPORTION_COLUMNS[i].patterns[j]) }
  IN  IF ~Contains(nameLower, KW_proportion) THEN 0
      ELSE IF Contains(nameLower, KW_viewport) THEN 0
      ELSE IF hits = {} THEN 0
      ELSE PROPORTION_COLUMNS[CHOOSE i \in hits : \A j \in hits : j <= i].columns

\* The column count of a proportion name; 0 stands for null.
getProportionColumnCountOfName(name) ==
  LET nameLower == toLowerCase(name)
      hits == { i \in DOMAIN PROPORTION_COLUMNS :
                  \E j \in DOMAIN PROPORTION_COLUMNS[i].patterns :
                     Contains(nameLower, PROPORTION_COLUMNS[i].patterns[j]) }
  IN  IF ~Contains(nameLower, KW_proportion) THEN 0
      ELSE IF Contains(nameLower, KW_viewport) THEN 0
      ELSE IF hits = {} THEN 0
      ELSE PROPORTION_COLUMNS[CHOOSE i \in hits : \A j \in hits : i <= j].columns

\* "name", "description" or "none" (null)
getViewportCandidateReasonOf(name, description) ==
  IF Contains(toLowerCase(name), KW_viewport) THEN "name"
  ELSE IF Contains(toLowerCase(description), KW_viewport) THEN "description"
  ELSE "none"

FONT_STYLE_KEYWORDS ==
  << <<"i", "t", "a", "l", "i", "c">>,
     <<"o", "b", "l", "i", "q", "u", "e">>,
     <<"n", "o", "r", "m", "a", "l">> >>

isFontStyleValue(value) ==
  LET lower == trim(toLowerCase(value))
  IN  \E i \in DOMAIN FONT_STYLE_KEYWORDS :
         lower = FONT_STYLE_KEYWORDS[i] \/ StartsWith(lower, KW_oblique_sp)

(***************************************************************************)
(* Values                                                                  *)
(*  raw value (Figma):  [tag, n, id, s]                                    *)
(*     tag "alias"  {type: 'VARIABLE_ALIAS', id}                           *)
(*         "number" n thousandths        "string" the text s               *)
(*         "color"  n = r*65536 + g*256 + b, the channels in 255ths, no a  *)
(*         "boolean" n in {0, 1}         "undefined" no value for the mode *)
(*  ProcessedValue:     [isAlias, aliasId, aliasName, resolved]            *)
(*     aliasId "" and aliasName <<>> stand for undefined                   *)
(*     resolved [k, n, s], k in {"null", "number", "string"}               *)
(*  formatted value:    [k, a, b, c, d, u, s], see the constructors        *)
(***************************************************************************)
RawUndefined == [tag |-> "undefined", n |-> 0, id |-> "", s |-> <<>>]
RawNumber(n) == [tag |-> "number", n |-> n, id |-> "", s |-> <<>>]
RawString(s) == [tag |-> "string", n |-> 0, id |-> "", s |-> s]
RawColor(n) == [tag |-> "color", n |-> n, id |-> "", s |-> <<>>]
RawBoolean(b) == [tag |-> "boolean", n |-> IF b THEN 1 ELSE 0, id |-> "", s |-> <<>>]
RawAlias(id) == [tag |-> "alias", n |-> 0, id |-> id, s |-> <<>>]

ResolvedNull == [k |-> "null", n |-> 0, s |-> <<>>]
ResolvedNumber(n) == [k |-> "number", n |-> n, s |-> <<>>]
ResolvedString(s) == [k |-> "string", n |-> 0, s |-> s]

HexChars == <<"0", "1", "2", "3", "4", "5", "6", "7", "8", "9", "a", "b", "c", "d", "e", "f">>

\* toHex of a channel given in 255ths: two hexadecimal digits
toHex(n) == <<HexChars[(n \div 16) + 1], HexChars[(n % 16) + 1]>>

\* color.a is undefined for the colors of the model: no alpha suffix
rgbToHex(n) ==
  <<"#">> \o toHex(n \div 65536) \o toHex((n \div 256) % 256) \o toHex(n % 256)

\* JavaScript truthiness of a raw value (BOOLEAN: rawValue ? 1 : 0)
Truthy(rawValue) ==
  CASE rawValue.tag = "undefined" -> FALSE
    [] rawValue.tag = "number"    -> rawValue.n # 0
    [] rawValue.tag = "string"    -> rawValue.s # <<>>
    [] rawValue.tag = "boolean"   -> rawValue.n = 1
    [] OTHER                      -> TRUE

\* processValue keeping the number an alias object would be read as beside
\* the alias target.
processValueLiteralBesideAlias(rawValue, type, options) ==
  IF rawValue.tag = "alias"
    THEN [isAlias |-> TRUE, aliasId |-> rawValue.id, aliasName |-> <<>>,
          resolved |-> ResolvedNumber(rawValue.n)]
    ELSE [isAlias |-> FALSE, aliasId |-> "", aliasName |-> <<>>,
          resolved |->
            IF rawValue.tag = "number" THEN ResolvedNumber(rawValue.n)
            ELSE IF rawValue.tag = "string" THEN ResolvedString(rawValue.s)
            ELSE ResolvedNull]

\* options.colorFormat is 'hex' in every request of the model
\* (rgbToOklch needs cube roots and arc tangents).
processValue(rawValue, type, options) ==
  IF rawValue.tag = "alias"
    THEN [isAlias |-> TRUE, aliasId |-> rawValue.id, aliasName |-> <<>>,
          resolved |-> ResolvedNull]
    ELSE [isAlias |-> FALSE, aliasId |-> "", aliasName |-> <<>>,
          resolved |->
            CASE type = "COLOR" ->
                   IF rawValue.tag = "color"
                     THEN ResolvedString(rgbToHex(rawValue.n)) ELSE ResolvedNull
              [] type = "FLOAT" ->
                   IF rawValue.tag = "number"
                     THEN ResolvedNumber(rawValue.n) ELSE ResolvedNull
              [] type = "STRING" ->
                   IF rawValue.tag = "string"
                     THEN ResolvedString(rawValue.s) ELSE ResolvedNull
              [] type = "BOOLEAN" ->
                   ResolvedNumber(IF Truthy(rawValue) THEN 1000 ELSE 0)
              [] OTHER -> ResolvedNull]

\* Math.round(num / den) for den > 0: floor(num / den + 1/2)
RoundDiv(num, den) == (2 * num + den) \div (2 * den)

\* round(value, 2) of thousandths, in hundredths
round2(n) == RoundDiv(n, 10)

CssNull == [k |-> "null", a |-> 0, b |-> 0, c |-> 0, d |-> 0, u |-> "", s |-> <<>>]
\* `var(<name>)`
CssVar(name) == [CssNull EXCEPT !.k = "var", !.s = name]
\* `<a/100><u>`: a number rounded to two places, with its unit
CssNumber(a, u) == [CssNull EXCEPT !.k = "number", !.a = a, !.u = u]
\* `<a/1000><u>`: a number written as it is, unrounded
CssRawNumber(a, u) == [CssNull EXCEPT !.k = "rawnumber", !.a = a, !.u = u]
\* `null<u>`: null concatenated with the unit
CssNullUnit(u) == [CssNull EXCEPT !.k = "nullunit", !.u = u]
\* the text s unquoted, `"s"` quoted
CssIdent(s) == [CssNull EXCEPT !.k = "ident", !.s = s]
CssQuoted(s) == [CssNull EXCEPT !.k = "quoted", !.s = s]
\* `clamp(<a><u>, calc(<b><u> + <c>vw), <d><u>)`, written
\* `calc(<c>vw - <|b|><u>)` when b < 0; c in ten-thousandths
CssClamp(a, b, c, d, u) ==
  [CssNull EXCEPT !.k = "clamp", !.a = a, !.b = b, !.c = c, !.d = d, !.u = u]
\* the same with equal viewport widths: slope and intercept are Infinity or NaN
CssClampNonFinite(a, d, u) ==
  [CssNull EXCEPT !.k = "clamp-nonfinite", !.a = a, !.d = d, !.u = u]
\* `min(100vw, <a><u>)`
CssMin(a, u) == [CssNull EXCEPT !.k = "min", !.a = a, !.u = u]
\* `<n>` and `<n>fr` of a proportion
CssColumns(n) == [CssNull EXCEPT !.k = "columns", !.a = n]
CssFr(n) == [CssNull EXCEPT !.k = "fr", !.a = n]

isUnitless(variable) == variable.unitless
getProportionColumnCount(variable) == variable.columnCount
getViewportCandidateReason(variable) == variable.viewportReason

formatCSSValue(value, variable, options) ==
  IF options.aliasMode = "preserved" /\ value.isAlias /\ value.aliasName # <<>>
    THEN CssVar(value.aliasName)
  ELSE IF value.resolved.k = "null" THEN CssNull
  ELSE IF variable.resolvedType = "FLOAT"
    THEN CssNumber(round2(value.resolved.n), IF isUnitless(variable) THEN "" ELSE "px")
  ELSE IF variable.resolvedType = "STRING"
    THEN IF isFontStyleValue(value.resolved.s)
           THEN CssIdent(trim(toLowerCase(value.resolved.s)))
           ELSE CssQuoted(value.resolved.s)
  ELSE IF variable.resolvedType = "BOOLEAN"
    THEN CssNumber(round2(value.resolved.n), "")
  ELSE CssIdent(value.resolved.s)

(***************************************************************************)
(* Scaling: variance, clamp, piecewise clamp, viewport-relative, proportion*)
(*  options: [outputMode, breakpointDirection, aliasMode, darkModeOutput,  *)
(*    colorFormat, includeLegacyFallbacks, viewportRelativeOverrides,      *)
(*    nonLinearOverrides, includeTextStyles]; the two override lists are   *)
(*    sets of identifiers, {} for a list that is absent or empty           *)
(*  modes (sorted): sequence of [modeId, name, breakpointPx]               *)
(***************************************************************************)
\* Every variable of a collection with two modes or more taken to vary.
hasModeVarianceAlways(variable, modes, options) == Len(modes) > 1

hasModeVariance(variable, modes, options) ==
  IF Len(modes) <= 1 THEN FALSE
  ELSE LET firstValue == formatCSSValue(variable.valuesByMode[modes[1].modeId], variable, options)
       IN  \E i \in 2..Len(modes) :
              formatCSSValue(variable.valuesByMode[modes[i].modeId], variable, options)
                # firstValue

\* needsMediaQueries without the test of variance.
needsMediaQueriesWhateverTheValues(variable, modes, options) ==
  IF variable.resolvedType # "FLOAT" THEN TRUE
  ELSE \E i \in DOMAIN modes : variable.valuesByMode[modes[i].modeId].isAlias

needsMediaQueries(variable, modes, options) ==
  IF ~hasModeVariance(variable, modes, options) THEN FALSE
  ELSE IF variable.resolvedType # "FLOAT" THEN TRUE
  ELSE \E i \in DOMAIN modes : variable.valuesByMode[modes[i].modeId].isAlias

shouldUseViewportRelative(variable, options) ==
  variable.cssName \in options.viewportRelativeOverrides

shouldUseProportion(variable, options) == getProportionColumnCount(variable) # 0

shouldUsePiecewiseClamp(variable, options) ==
  variable.cssName \in options.nonLinearOverrides

\* The clamp() with the vw factor rounded to two places instead of four.
clampBetweenTwoPlaces(fromVP, fromValue, toVP, toValue, unit) ==
  LET lo == round2(IF fromValue < toValue THEN fromValue ELSE toValue)
      hi == round2(IF fromValue < toValue THEN toValue ELSE fromValue)
      dV == IF fromVP > toVP THEN fromValue - toValue ELSE toValue - fromValue
      dP == IF fromVP > toVP THEN fromVP - toVP ELSE toVP - fromVP
  IN  IF fromVP = toVP THEN CssClampNonFinite(lo, hi, unit)
      ELSE CssClamp(lo,
                    RoundDiv(toValue * dP - dV * toVP, 10 * dP),
                    100 * RoundDiv(dV * 10, dP),
                    hi, unit)

\* One clamp() between (fromVP, fromValue) and (toVP, toValue), the values in
\* thousandths: slope = (from - to) / (fromVP - toVP),
\* intercept = toValue - slope * toVP, round(slope * 100, 4), round(.., 2).
clampBetween(fromVP, fromValue, toVP, toValue, unit) ==
  LET lo == round2(IF fromValue < toValue THEN fromValue ELSE toValue)
      hi == round2(IF fromValue < toValue THEN toValue ELSE fromValue)
      dV == IF fromVP > toVP THEN fromValue - toValue ELSE toValue - fromValue
      dP == IF fromVP > toVP THEN fromVP - toVP ELSE toVP - fromVP
  IN  IF fromVP = toVP THEN CssClampNonFinite(lo, hi, unit)
      ELSE CssClamp(lo,
                    RoundDiv(toValue * dP - dV * toVP, 10 * dP),
                    RoundDiv(dV * 1000, dP),
                    hi, unit)

generatePiecewiseClampValue(fromMode, toMode, variable) ==
  LET fromValue == variable.valuesByMode[fromMode.modeId].resolved
      toValue   == variable.valuesByMode[toMode.modeId].resolved
      unit      == IF isUnitless(variable) THEN "" ELSE "px"
  IN  IF fromValue.k # "number" \/ toValue.k # "number"
        THEN IF fromValue.k = "number" THEN CssRawNumber(fromValue.n, unit)
             ELSE CssNullUnit(unit)
      ELSE IF fromValue.n = toValue.n THEN CssNumber(round2(fromValue.n), unit)
      ELSE clampBetween(fromMode.breakpointPx, fromValue.n,
                        toMode.breakpointPx, toValue.n, unit)

\* [value, isViewportRelative]
generateFluidValue(modes, variable, options) ==
  LET maxMode  == modes[1]
      minMode  == modes[Len(modes)]
      maxValue == variable.valuesByMode[maxMode.modeId].resolved
      minValue == variable.valuesByMode[minMode.modeId].resolved
      unitless == isUnitless(variable)
      unit     == IF unitless THEN "" ELSE "px"
  IN  IF maxValue.k # "number" \/ minValue.k # "number"
        THEN [value |-> IF maxValue.k = "number" THEN CssRawNumber(maxValue.n, unit)
                        ELSE CssNullUnit(unit),
              isViewportRelative |-> FALSE]
      ELSE IF shouldUseViewportRelative(variable, options)
        THEN [value |-> CssMin(round2(maxValue.n), unit), isViewportRelative |-> TRUE]
      ELSE IF unitless /\ maxValue.n = minValue.n
        THEN [value |-> CssNumber(round2(maxValue.n), ""), isViewportRelative |-> FALSE]
      ELSE [value |-> clampBetween(maxMode.breakpointPx, maxValue.n,
                                   minMode.breakpointPx, minValue.n, unit),
            isViewportRelative |-> FALSE]

(***************************************************************************)
(* Emission                                                                *)
(*  line: [t, coll, sel, px, name, value, src, mode]                       *)
(*   t "section": the header of collection coll                            *)
(*   t "block": a block opens; sel is "root", "max-width", "min-width",    *)
(*     "prefers-light", "prefers-dark", "data-light", "data-dark",         *)
(*     "piecewise-max-width", "piecewise-min-width", "supports",           *)
(*     "fallback-max-width" or "fallback-min-width"; px the threshold      *)
(*   t "decl": `name: value;` inside the block (sel, px)                   *)
(***************************************************************************)
Section(coll) ==
  [t |-> "section", coll |-> coll, sel |-> "", px |-> 0, name |-> <<>>,
   value |-> CssNull, src |-> "", mode |-> ""]
Block(coll, sel, px) ==
  [t |-> "block", coll |-> coll, sel |-> sel, px |-> px, name |-> <<>>,
   value |-> CssNull, src |-> "", mode |-> ""]
Decl(coll, sel, px, name, value, src, mode) ==
  [t |-> "decl", coll |-> coll, sel |-> sel, px |-> px, name |-> name,
   value |-> value, src |-> src, mode |-> mode]

FrSuffix == <<"-", "-", "f", "r">>

shouldSkipVariable(variable, value, outputtedCSSNames) ==
  \/ value.isAlias /\ value.aliasName = variable.cssName
  \/ variable.cssName \in outputtedCSSNames /\ variable.layerType # "foundations"

\* What the emission of one collection hands back: its lines, the names
\* output so far and the three report lists it appends to.
Emitted(lines, out, proportionVars, nonLinearVars, viewportRelativeVars) ==
  [lines |-> lines, out |-> out, proportionVars |-> proportionVars,
   nonLinearVars |-> nonLinearVars, viewportRelativeVars |-> viewportRelativeVars]

\* The loop that fills the default :root block of a stepped, theme or
\* single-mode collection from the values of mode modeId.  Only the stepped
\* loop has the proportion branch (proportions = TRUE).  acc: an Emitted
\* record.
RECURSIVE rootBlockLoop(_, _, _, _, _, _, _)
rootBlockLoop(variables, vi, modeId, options, coll, proportions, acc) ==
  IF vi > Len(variables) THEN acc
  ELSE
    LET variable == variables[vi]
        value    == variable.valuesByMode[modeId]
        cssValue == formatCSSValue(value, variable, options)
        count    == getProportionColumnCount(variable)
        next ==
          IF shouldSkipVariable(variable, value, acc.out) THEN acc
          ELSE IF proportions /\ shouldUseProportion(variable, options) /\ count # 0
            THEN [acc EXCEPT
                    !.lines = @ \o
                      << Decl(coll, "root", 0, variable.cssName, CssColumns(count),
                              variable.id, modeId),
                         Decl(coll, "root", 0, variable.cssName \o FrSuffix, CssFr(count),
                              variable.id, modeId) >>,
                    !.out = @ \cup {variable.cssName}]
          ELSE IF cssValue # CssNull
            THEN [acc EXCEPT
                    !.lines = Append(@, Decl(coll, "root", 0, variable.cssName, cssValue,
                                             variable.id, modeId)),
                    !.out = @ \cup {variable.cssName}]
          ELSE acc
    IN  rootBlockLoop(variables, vi + 1, modeId, options, coll, proportions, next)

\* The loop of a later block (a width media query of the stepped output, a
\* theme block): every variable whose name is among the names output so far.
RECURSIVE laterBlockLoop(_, _, _, _, _, _, _, _, _)
laterBlockLoop(variables, vi, modeId, options, out, coll, sel, px, skipProportions) ==
  IF vi > Len(variables) THEN <<>>
  ELSE
    LET variable == variables[vi]
        cssValue == formatCSSValue(variable.valuesByMode[modeId], variable, options)
        here ==
          IF skipProportions /\ shouldUseProportion(variable, options) THEN <<>>
          ELSE IF variable.cssName \notin out THEN <<>>
          ELSE IF cssValue # CssNull
            THEN << Decl(coll, sel, px, variable.cssName, cssValue, variable.id, modeId) >>
          ELSE <<>>
    IN  here \o laterBlockLoop(variables, vi + 1, modeId, options, out, coll, sel, px,
                               skipProportions)

generateSingleModeCSS(collection, variables, options, outputtedCSSNames) ==
  rootBlockLoop(variables, 1, collection.modes[1].modeId, options, collection.id, FALSE,
                Emitted(<< Block(collection.id, "root", 0) >>, outputtedCSSNames,
                        <<>>, <<>>, <<>>))

\* the last mode whose lower-cased name contains keyword; 0 for null
lastModeContaining(modes, keyword) ==
  LET hits == { i \in DOMAIN modes : Contains(toLowerCase(modes[i].name), keyword) }
  IN  IF hits = {} THEN 0 ELSE CHOOSE i \in hits : \A j \in hits : j <= i

\* A theme block that leaves out the variables whose formatted value is the
\* same in every mode.
themeBlockOfChangedOnly(collection, variables, options, out, sel, mi) ==
  LET changes(variable) ==
        \E m \in DOMAIN variable.valuesByMode :
           formatCSSValue(variable.valuesByMode[m], variable, options)
             # formatCSSValue(variable.valuesByMode[collection.modes[mi].modeId],
                              variable, options)
  IN  << Block(collection.id, sel, 0) >>
      \o laterBlockLoop(SelectSeq(variables, changes), 1, collection.modes[mi].modeId,
                        options, out, collection.id, sel, 0, FALSE)

\* One theme block: its opener and the values of mode mi.
themeBlock(collection, variables, options, out, sel, mi) ==
  << Block(collection.id, sel, 0) >>
  \o laterBlockLoop(variables, 1, collection.modes[mi].modeId, options, out,
                    collection.id, sel, 0, FALSE)

\* The theme blocks that follow the :root block root, li and di being the
\* light and the dark mode.
themeBlocks(collection, variables, options, root, li, di) ==
  LET usePrefersColorScheme == options.darkModeOutput \in {"prefers-color-scheme", "both"}
      useClass              == options.darkModeOutput \in {"class", "both"}
  IN  IF di # 0 /\ li # 0
        THEN [root EXCEPT !.lines = @
                \o (IF usePrefersColorScheme
                      THEN themeBlock(collection, variables, options, root.out,
                                      "prefers-light", li)
                        \o themeBlock(collection, variables, options, root.out,
                                      "prefers-dark", di)
                      ELSE <<>>)
                \o themeBlock(collection, variables, options, root.out, "data-light", li)
                \o (IF useClass
                      THEN themeBlock(collection, variables, options, root.out,
                                      "data-dark", di)
                      ELSE <<>>)]
        ELSE root

\* The :root block from the light mode (the first mode when there is none).
themeRoot(collection, variables, options, outputtedCSSNames, li) ==
  rootBlockLoop(variables, 1, collection.modes[IF li # 0 THEN li ELSE 1].modeId,
                options, collection.id, FALSE,
                Emitted(<< Block(collection.id, "root", 0) >>, outputtedCSSNames,
                        <<>>, <<>>, <<>>))

generateThemeCSS(collection, variables, options, outputtedCSSNames) ==
  themeBlocks(collection, variables, options,
              themeRoot(collection, variables, options, outputtedCSSNames,
                        lastModeContaining(collection.modes, KW_light)),
              lastModeContaining(collection.modes, KW_light),
              lastModeContaining(collection.modes, KW_dark))

\* The width blocks of the stepped output with the desktop-first threshold
\* taken from the mode's own width instead of the width of the mode before it.
RECURSIVE steppedMediaLoopOwnWidth(_, _, _, _, _, _, _)
steppedMediaLoopOwnWidth(modes, i, isDesktopFirst, variables, options, out, coll) ==
  IF i < 1 \/ i > Len(modes) THEN <<>>
  ELSE
    LET sel == IF isDesktopFirst THEN "max-width" ELSE "min-width"
        px  == IF isDesktopFirst THEN modes[i].breakpointPx - 1
               ELSE modes[i].breakpointPx
    IN  << Block(coll, sel, px) >>
        \o laterBlockLoop(variables, 1, modes[i].modeId, options, out, coll, sel, px, TRUE)
        \o steppedMediaLoopOwnWidth(modes, IF isDesktopFirst THEN i + 1 ELSE i - 1,
                                    isDesktopFirst, variables, options, out, coll)

\* The width blocks of the stepped output, one per mode but the default one:
\* desktop-first from the second largest mode down (max-width, the width of
\* the next larger mode minus 1), mobile-first from the second smallest up
\* (min-width, the mode's own width).
RECURSIVE steppedMediaLoop(_, _, _, _, _, _, _)
steppedMediaLoop(modes, i, isDesktopFirst, variables, options, out, coll) ==
  IF i < 1 \/ i > Len(modes) THEN <<>>
  ELSE
    LET sel == IF isDesktopFirst THEN "max-width" ELSE "min-width"
        px  == IF isDesktopFirst THEN modes[i - 1].breakpointPx - 1
               ELSE modes[i].breakpointPx
    IN  << Block(coll, sel, px) >>
        \o laterBlockLoop(variables, 1, modes[i].modeId, options, out, coll, sel, px, TRUE)
        \o steppedMediaLoop(modes, IF isDesktopFirst THEN i + 1 ELSE i - 1,
                            isDesktopFirst, variables, options, out, coll)

\* The width blocks after the :root block root.
steppedMedia(modes, variables, options, coll, root) ==
  LET isDesktopFirst == options.breakpointDirection # "mobile-first"
  IN  [root EXCEPT !.lines = @
         \o steppedMediaLoop(modes, IF isDesktopFirst THEN 2 ELSE Len(modes) - 1,
                             isDesktopFirst, variables, options, root.out, coll)]

generateSteppedCSS(modes, variables, options, outputtedCSSNames, coll) ==
  LET isDesktopFirst == options.breakpointDirection # "mobile-first"
      defaultMode    == IF isDesktopFirst THEN modes[1] ELSE modes[Len(modes)]
  IN  steppedMedia(modes, variables, options, coll,
        rootBlockLoop(variables, 1, defaultMode.modeId, options, coll, TRUE,
                      Emitted(<< Block(coll, "root", 0) >>, outputtedCSSNames,
                              <<>>, <<>>, <<>>)))

\* The first loop of the :root block of the fluid output: the clampable
\* variables, from the values of the default mode.  acc: an Emitted record.
RECURSIVE fluidClampableLoop(_, _, _, _, _, _, _)
fluidClampableLoop(clampableVars, vi, modes, defaultMode, options, coll, acc) ==
  IF vi > Len(clampableVars) THEN acc
  ELSE
    LET variable == clampableVars[vi]
        value    == variable.valuesByMode[defaultMode.modeId]
        count    == getProportionColumnCount(variable)
        decl(v)  == Decl(coll, "root", 0, variable.cssName, v, variable.id,
                         defaultMode.modeId)
        plain(cssValue) ==
          [acc EXCEPT !.lines = Append(@, decl(cssValue)),
                      !.out = @ \cup {variable.cssName}]
        fluid(fluidResult) ==
          [acc EXCEPT !.lines = Append(@, decl(fluidResult.value)),
                      !.viewportRelativeVars =
                         IF fluidResult.isViewportRelative
                           THEN Append(@, variable.cssName) ELSE @,
                      !.out = @ \cup {variable.cssName}]
        declared(cssValue) ==
          IF cssValue = CssNull THEN acc
          ELSE IF ~(/\ hasModeVariance(variable, modes, options)
                    /\ variable.resolvedType = "FLOAT"
                    /\ ~value.isAlias)
            THEN plain(cssValue)
          ELSE IF shouldUseProportion(variable, options)
            THEN IF count # 0
                   THEN [acc EXCEPT
                           !.lines = @ \o
                              << decl(CssColumns(count)),
                                 Decl(coll, "root", 0, variable.cssName \o FrSuffix,
                                      CssFr(count), variable.id, defaultMode.modeId) >>,
                           !.proportionVars = Append(@, variable.cssName),
                           !.out = @ \cup {variable.cssName}]
                   ELSE plain(cssValue)
          ELSE IF shouldUsePiecewiseClamp(variable, options)
            THEN [acc EXCEPT
                    !.lines = Append(@,
                       decl(generatePiecewiseClampValue(modes[1], modes[2], variable))),
                    !.nonLinearVars = Append(@, variable.cssName),
                    !.out = @ \cup {variable.cssName}]
          ELSE fluid(generateFluidValue(modes, variable, options))
    IN  fluidClampableLoop(clampableVars, vi + 1, modes, defaultMode, options, coll,
                           declared(formatCSSValue(value, variable, options)))

\* The second loop of the :root block: the media-query variables.
RECURSIVE fluidMediaRootLoop(_, _, _, _, _, _)
fluidMediaRootLoop(mediaQueryVars, vi, defaultMode, options, coll, acc) ==
  IF vi > Len(mediaQueryVars) THEN acc
  ELSE
    LET variable == mediaQueryVars[vi]
        cssValue == formatCSSValue(variable.valuesByMode[defaultMode.modeId],
                                   variable, options)
        next ==
          IF cssValue = CssNull THEN acc
          ELSE [acc EXCEPT
                  !.lines = Append(@, Decl(coll, "root", 0, variable.cssName, cssValue,
                                           variable.id, defaultMode.modeId)),
                  !.out = @ \cup {variable.cssName}]
    IN  fluidMediaRootLoop(mediaQueryVars, vi + 1, defaultMode, options, coll, next)

\* varsForThisBreakpoint, as the declarations of the block (sel, px)
RECURSIVE valuesOfMode(_, _, _, _, _, _, _)
valuesOfMode(vars, vi, mode, options, coll, sel, px) ==
  IF vi > Len(vars) THEN <<>>
  ELSE
    LET variable == vars[vi]
        cssValue == formatCSSValue(variable.valuesByMode[mode.modeId], variable, options)
    IN  (IF cssValue = CssNull THEN <<>>
         ELSE << Decl(coll, sel, px, variable.cssName, cssValue, variable.id,
                      mode.modeId) >>)
        \o valuesOfMode(vars, vi + 1, mode, options, coll, sel, px)

\* The width blocks with the desktop-first threshold taken from the mode's
\* own width instead of the width of the mode before it.
RECURSIVE fluidMediaLoopOwnWidth(_, _, _, _, _, _, _, _)
fluidMediaLoopOwnWidth(modes, i, isDesktopFirst, vars, options, coll, sel, emptyToo) ==
  IF i < 1 \/ i > Len(modes) THEN <<>>
  ELSE
    LET px  == IF isDesktopFirst THEN modes[i].breakpointPx - 1
               ELSE modes[i].breakpointPx
        varsForThisBreakpoint == valuesOfMode(vars, 1, modes[i], options, coll, sel, px)
    IN  (IF varsForThisBreakpoint # <<>> \/ emptyToo
           THEN << Block(coll, sel, px) >> \o varsForThisBreakpoint
           ELSE <<>>)
        \o fluidMediaLoopOwnWidth(modes, IF isDesktopFirst THEN i + 1 ELSE i - 1,
                                  isDesktopFirst, vars, options, coll, sel, emptyToo)

\* The width blocks of the media-query variables (emptyToo = FALSE: a block
\* with no declaration is not written) and of the legacy fallback
\* (emptyToo = TRUE).
RECURSIVE fluidMediaLoop(_, _, _, _, _, _, _, _)
fluidMediaLoop(modes, i, isDesktopFirst, vars, options, coll, sel, emptyToo) ==
  IF i < 1 \/ i > Len(modes) THEN <<>>
  ELSE
    LET px  == IF isDesktopFirst THEN modes[i - 1].breakpointPx - 1
               ELSE modes[i].breakpointPx
        varsForThisBreakpoint == valuesOfMode(vars, 1, modes[i], options, coll, sel, px)
    IN  (IF varsForThisBreakpoint # <<>> \/ emptyToo
           THEN << Block(coll, sel, px) >> \o varsForThisBreakpoint
           ELSE <<>>)
        \o fluidMediaLoop(modes, IF isDesktopFirst THEN i + 1 ELSE i - 1, isDesktopFirst,
                          vars, options, coll, sel, emptyToo)

\* One piecewise block: the segment fromMode -> toMode of every piecewise
\* variable, inside the block (sel, px).
RECURSIVE piecewiseSegment(_, _, _, _, _, _, _)
piecewiseSegment(piecewiseVars, vi, fromMode, toMode, coll, sel, px) ==
  IF vi > Len(piecewiseVars) THEN <<>>
  ELSE << Decl(coll, sel, px, piecewiseVars[vi].cssName,
               generatePiecewiseClampValue(fromMode, toMode, piecewiseVars[vi]),
               piecewiseVars[vi].id, fromMode.modeId) >>
       \o piecewiseSegment(piecewiseVars, vi + 1, fromMode, toMode, coll, sel, px)

\* generateFluidCSS after the partition of the variables.
fluidBlocks(modes, options, outputtedCSSNames, coll, clampableVars, mediaQueryVars) ==
  LET isDesktopFirst == options.breakpointDirection # "mobile-first"
      defaultMode    == IF isDesktopFirst THEN modes[1] ELSE modes[Len(modes)]
      second         == IF isDesktopFirst THEN 2 ELSE Len(modes) - 1
      root == fluidMediaRootLoop(mediaQueryVars, 1, defaultMode, options, coll,
                fluidClampableLoop(clampableVars, 1, modes, defaultMode, options, coll,
                  Emitted(<< Block(coll, "root", 0) >>, outputtedCSSNames,
                          <<>>, <<>>, <<>>)))
      media ==
        IF mediaQueryVars # <<>>
          THEN fluidMediaLoop(modes, second, isDesktopFirst, mediaQueryVars, options, coll,
                              IF isDesktopFirst THEN "max-width" ELSE "min-width", FALSE)
          ELSE <<>>
      isPiecewiseVar(v) ==
        /\ shouldUsePiecewiseClamp(v, options)
        /\ ~shouldUseProportion(v, options)
        /\ ~shouldUseViewportRelative(v, options)
        /\ hasModeVariance(v, modes, options)
        /\ v.resolvedType = "FLOAT"
      segment(piecewiseVars, sel, px, from, to) ==
        << Block(coll, sel, px) >>
        \o piecewiseSegment(piecewiseVars, 1, modes[from], modes[to], coll, sel, px)
      segments(piecewiseVars) ==
        IF options.nonLinearOverrides # {} /\ piecewiseVars # <<>> /\ Len(modes) >= 3
          THEN IF isDesktopFirst
                 THEN segment(piecewiseVars, "piecewise-max-width",
                              modes[1].breakpointPx - 1, 2, 3)
                      \o (IF Len(modes) >= 4
                            THEN segment(piecewiseVars, "piecewise-max-width",
                                         modes[2].breakpointPx - 1, 3, 4)
                            ELSE <<>>)
                 ELSE (IF Len(modes) >= 4
                         THEN segment(piecewiseVars, "piecewise-min-width",
                                      modes[3].breakpointPx, 3, 2)
                         ELSE <<>>)
                      \o segment(piecewiseVars, "piecewise-min-width",
                                 modes[2].breakpointPx, 2, 1)
          ELSE <<>>
      isFallbackVar(v) ==
        /\ hasModeVariance(v, modes, options)
        /\ ~shouldUseProportion(v, options)
        /\ ~shouldUseViewportRelative(v, options)
      fallback(clampableWithVariance) ==
        IF options.includeLegacyFallbacks /\ clampableWithVariance # <<>>
          THEN << Block(coll, "supports", 0) >>
               \o fluidMediaLoop(modes, second, isDesktopFirst, clampableWithVariance,
                                 options, coll,
                                 IF isDesktopFirst THEN "fallback-max-width"
                                 ELSE "fallback-min-width", TRUE)
          ELSE <<>>
  IN  [root EXCEPT !.lines = @ \o media
                     \o segments(SelectSeq(clampableVars, isPiecewiseVar))
                     \o fallback(SelectSeq(clampableVars, isFallbackVar))]

\* The variables the fluid output declares, those skipped on the value of
\* the largest mode left out.
fluidEligible(modes, variables, outputtedCSSNames) ==
  LET passes(v) == ~shouldSkipVariable(v, v.valuesByMode[modes[1].modeId],
                                       outputtedCSSNames)
  IN  SelectSeq(variables, passes)

generateFluidCSS(modes, variables, options, outputtedCSSNames, coll) ==
  LET isMediaQueryVar(v) == needsMediaQueries(v, modes, options)
      isClampableVar(v)  == ~needsMediaQueries(v, modes, options)
      partition(eligible) ==
        fluidBlocks(modes, options, outputtedCSSNames, coll,
                    SelectSeq(eligible, isClampableVar),
                    SelectSeq(eligible, isMediaQueryVar))
  IN  partition(fluidEligible(modes, variables, outputtedCSSNames))

\* sortedModes.sort(function(a, b) { return b.breakpointPx - a.breakpointPx; }):
\* a stable sort, the largest width first
RECURSIVE insertMode(_, _)
insertMode(sorted, m) ==
  IF sorted = <<>> THEN << m >>
  ELSE IF sorted[Len(sorted)].breakpointPx >= m.breakpointPx THEN Append(sorted, m)
  ELSE Append(insertMode(SubSeq(sorted, 1, Len(sorted) - 1), m), sorted[Len(sorted)])
RECURSIVE sortModes(_, _)
sortModes(modes, n) ==
  IF n = 0 THEN <<>> ELSE insertMode(sortModes(modes, n - 1), modes[n])

\* The modes of a collection with detectBreakpoint(name) || 0, sorted.
sortedModesOf(bp, collection) ==
  sortModes([i \in DOMAIN collection.modes |->
               [modeId |-> collection.modes[i].modeId,
                name   |-> collection.modes[i].name,
                breakpointPx |-> detectBreakpoint(bp, collection.modes[i].name).px]],
            Len(collection.modes))

breakpointDispatch(sortedModes, variables, options, outputtedCSSNames, coll) ==
  IF options.outputMode = "fluid" /\ Len(sortedModes) >= 2
    THEN generateFluidCSS(sortedModes, variables, options, outputtedCSSNames, coll)
    ELSE generateSteppedCSS(sortedModes, variables, options, outputtedCSSNames, coll)

generateBreakpointCSS(bp, collection, variables, options, outputtedCSSNames) ==
  breakpointDispatch(sortedModesOf(bp, collection), variables, options,
                     outputtedCSSNames, collection.id)

(***************************************************************************)
(* The output pass                                                         *)
(***************************************************************************)

\* The rank of a character in the collation of localeCompare, for the
\* characters a domain of the model is made of: the blank and the
\* punctuation before the digits, the digits before the letters.
charRank(c) ==
  IF IsLower(c) THEN 20 + (CHOOSE i \in DOMAIN LowerChars : LowerChars[i] = c)
  ELSE IF IsDigit(c) THEN 3 + (CHOOSE i \in DOMAIN DigitChars : DigitChars[i] = c)
  ELSE IF c = " " THEN 1
  ELSE IF c = "-" THEN 2
  ELSE 3

\* a.localeCompare(b) < 0, = 0, > 0 as -1, 0, 1
RECURSIVE localeCompare(_, _)
localeCompare(a, b) ==
  IF a = <<>> /\ b = <<>> THEN 0
  ELSE IF a = <<>> THEN -1
  ELSE IF b = <<>> THEN 1
  ELSE IF charRank(Head(a)) < charRank(Head(b)) THEN -1
  ELSE IF charRank(Head(a)) > charRank(Head(b)) THEN 1
  ELSE localeCompare(Tail(a), Tail(b))

layerOrder(name) ==
  LET lower == toLowerCase(name)
  IN  IF Contains(lower, KW_foundation) THEN 0
      ELSE IF Contains(lower, KW_alias) /\ ~Contains(lower, KW_extended) THEN 1
      ELSE IF Contains(lower, KW_extended) THEN 2
      ELSE IF Contains(lower, KW_mapping) THEN 3
      ELSE 4

\* the comparator handed to sortedCollections.sort
compareCollections(a, b) ==
  LET parsedA == parseCollectionName(a.name)
      parsedB == parseCollectionName(b.name)
  IN  IF parsedA.domain # parsedB.domain
        THEN localeCompare(parsedA.domain, parsedB.domain)
        ELSE layerOrder(a.name) - layerOrder(b.name)

\* No sort at all: the collection stays where it was discovered.
appendCollection(sorted, c) == Append(sorted, c)

\* Array.prototype.sort with that comparator: stable, so collections the
\* comparator ties keep the order they were discovered in.
RECURSIVE insertCollection(_, _)
insertCollection(sorted, c) ==
  IF sorted = <<>> THEN << c >>
  ELSE IF compareCollections(sorted[Len(sorted)], c) <= 0 THEN Append(sorted, c)
  ELSE Append(insertCollection(SubSeq(sorted, 1, Len(sorted) - 1), c),
              sorted[Len(sorted)])
RECURSIVE sortCollections(_, _)
sortCollections(cs, n) ==
  IF n = 0 THEN <<>> ELSE insertCollection(sortCollections(cs, n - 1), cs[n])

\* groups.get(collectionId): the variables of the collection, in the order
\* they were collected
groupByCollection(variables, collectionId) ==
  LET ofCollection(v) == v.collectionId = collectionId
  IN  SelectSeq(variables, ofCollection)

\* The section of one collection appended to what was emitted before it.
appendSection(acc, coll, section) ==
  Emitted(acc.lines \o << Section(coll) >> \o section.lines,
          section.out,
          acc.proportionVars \o section.proportionVars,
          acc.nonLinearVars \o section.nonLinearVars,
          acc.viewportRelativeVars \o section.viewportRelativeVars)

\* The mode type of a collection under the width table bp.
modeTypeOf(bp, collection) ==
  detectModeType([mi \in DOMAIN collection.modes |->
                    [modeId |-> collection.modes[mi].modeId,
                     name   |-> collection.modes[mi].name,
                     breakpointPx |-> detectBreakpoint(bp, collection.modes[mi].name)]])

sectionOf(bp, collection, variables, options, outputtedCSSNames, modeType) ==
  IF modeType = "breakpoint"
    THEN generateBreakpointCSS(bp, collection, variables, options, outputtedCSSNames)
  ELSE IF modeType = "theme"
    THEN generateThemeCSS(collection, variables, options, outputtedCSSNames)
  ELSE generateSingleModeCSS(collection, variables, options, outputtedCSSNames)

\* The loop over the sorted collections.  acc: an Emitted record.
RECURSIVE sectionLoop(_, _, _, _, _, _)
sectionLoop(bp, sortedCollections, si, allVariables, options, acc) ==
  IF si > Len(sortedCollections) THEN acc
  ELSE sectionLoop(bp, sortedCollections, si + 1, allVariables, options,
         appendSection(acc, sortedCollections[si].id,
           sectionOf(bp, sortedCollections[si],
                     groupByCollection(allVariables, sortedCollections[si].id),
                     options, acc.out, modeTypeOf(bp, sortedCollections[si]))))

\* the collections that are not remote and have a group
collectionsToEmit(allVariables, collections) ==
  LET hasGroup(c) == ~c.remote /\ \E i \in DOMAIN allVariables :
                                     allVariables[i].collectionId = c.id
  IN  SelectSeq(collections, hasGroup)

sortedCollectionsOf(withGroups) == sortCollections(withGroups, Len(withGroups))

generateCSSOutput(bp, allVariables, collections, options) ==
  sectionLoop(bp, sortedCollectionsOf(collectionsToEmit(allVariables, collections)), 1,
              allVariables, options, Emitted(<<>>, {}, <<>>, <<>>, <<>>))

(***************************************************************************)
(* handleGenerateCSS                                                       *)
(*  host variable: [id, name, description, resolvedType, valuesByMode]     *)
(*  host collection: [id, name, remote, modes, variableIds]                *)
(*  VariableInfo: the fields of the code, then the key order of            *)
(*    valuesByMode (modeIds) and what isUnitless,                          *)
(*    getProportionColumnCount and getViewportCandidateReason compute      *)
(*    from its name, cssName and description, computed once                *)
(***************************************************************************)
BrokenAliasPrefix == <<"B", "r", "o", "k", "e", "n", " ", "a", "l", "i", "a", "s", ":", " ">>
BrokenAliasSuffix == <<" ", "r", "e", "f", "e", "r", "e", "n", "c", "e", "s", " ", "u", "n", "k", "n", "o", "w", "n", " ", "v", "a", "r", "i", "a", "b", "l", "e">>

\* The body of the first pass for one variable the host has returned.
makeVariableInfo(variable, collection, options) ==
  LET parsed  == parseCollectionName(collection.name)
      cssName == generateCSSName(variable.name, parsed.domain, parsed.layerType)
      modeIds == [mi \in DOMAIN collection.modes |-> collection.modes[mi].modeId]
      valuesByMode ==
        [modeId \in Range(modeIds) |->
           processValue(IF modeId \in DOMAIN variable.valuesByMode
                          THEN variable.valuesByMode[modeId] ELSE RawUndefined,
                        variable.resolvedType, options)]
  IN  [id             |-> variable.id,
       name           |-> variable.name,
       description    |-> variable.description,
       collectionId   |-> collection.id,
       collectionName |-> collection.name,
       domain         |-> parsed.domain,
       layerType      |-> parsed.layerType,
       resolvedType   |-> variable.resolvedType,
       valuesByMode   |-> valuesByMode,
       isAlias        |-> \E modeId \in Range(modeIds) : valuesByMode[modeId].isAlias,
       cssName        |-> cssName,
       modeIds        |-> modeIds,
       unitless       |-> isUnitlessName(variable.name, cssName),
       columnCount    |-> getProportionColumnCountOfName(variable.name),
       viewportReason |-> getViewportCandidateReasonOf(variable.name,
                                                       variable.description)]

\* variableMap.get(id): the variable set last under that id; 0 for undefined
variableMapGet(allVariables, id) ==
  LET hits == { i \in DOMAIN allVariables : allVariables[i].id = id }
  IN  IF hits = {} THEN 0 ELSE CHOOSE i \in hits : \A j \in hits : j <= i

\* Second pass, the values: aliasName of every alias whose target is known.
resolveAliasNames(allVariables) ==
  LET resolve(value) ==
        LET target == variableMapGet(allVariables, value.aliasId)
        IN  IF value.isAlias /\ value.aliasId # "" /\ target # 0
              THEN [value EXCEPT !.aliasName = allVariables[target].cssName]
              ELSE value
  IN  [ai \in DOMAIN allVariables |->
         [allVariables[ai] EXCEPT !.valuesByMode =
            [modeId \in DOMAIN allVariables[ai].valuesByMode |->
               resolve(allVariables[ai].valuesByMode[modeId])]]]

\* The second pass with a diagnostic per variable instead of per reference:
\* after the first unknown target of a variable it goes on to the next variable.
RECURSIVE brokenAliasErrorsOncePerVariable(_, _, _)
brokenAliasErrorsOncePerVariable(allVariables, ai, mi) ==
  IF ai > Len(allVariables) THEN <<>>
  ELSE IF mi > Len(allVariables[ai].modeIds)
    THEN brokenAliasErrorsOncePerVariable(allVariables, ai + 1, 1)
  ELSE
    LET varInfo == allVariables[ai]
        value   == varInfo.valuesByMode[varInfo.modeIds[mi]]
    IN  IF /\ value.isAlias
           /\ value.aliasId # ""
           /\ \A i \in DOMAIN allVariables : allVariables[i].id # value.aliasId
          THEN << BrokenAliasPrefix \o varInfo.name \o BrokenAliasSuffix >>
               \o brokenAliasErrorsOncePerVariable(allVariables, ai + 1, 1)
          ELSE brokenAliasErrorsOncePerVariable(allVariables, ai, mi + 1)

\* Second pass, the diagnostics: one per alias whose target is unknown, in
\* the order of the variables and of the keys of valuesByMode.
RECURSIVE brokenAliasErrors(_, _, _)
brokenAliasErrors(allVariables, ai, mi) ==
  IF ai > Len(allVariables) THEN <<>>
  ELSE IF mi > Len(allVariables[ai].modeIds) THEN brokenAliasErrors(allVariables, ai + 1, 1)
  ELSE
    LET varInfo == allVariables[ai]
        value   == varInfo.valuesByMode[varInfo.modeIds[mi]]
    IN  (IF /\ value.isAlias
            /\ value.aliasId # ""
            /\ variableMapGet(allVariables, value.aliasId) = 0
           THEN << BrokenAliasPrefix \o varInfo.name \o BrokenAliasSuffix >>
           ELSE <<>>)
        \o brokenAliasErrors(allVariables, ai, mi + 1)

\* The message handleGenerateCSS posts.
cssGeneratedMessage(output, errors, collections, allVariables) ==
  [type   |-> "css-generated",
   css    |-> output.lines,
   errors |-> errors,
   collections |-> Cardinality({ i \in DOMAIN collections : ~collections[i].remote }),
   variables   |-> Len(allVariables),
   viewportRelativeVars |-> output.viewportRelativeVars,
   proportionVars       |-> output.proportionVars,
   nonLinearVars        |-> output.nonLinearVars,
   textStyleCount       |-> 0]

\* From the second pass to the message posted to the UI, with the variables
\* the first pass has collected and the width table bp as it is by then.
cssGenerated(bp, collections, allVariables, options) ==
  cssGeneratedMessage(
    generateCSSOutput(bp, resolveAliasNames(allVariables), collections, options),
    brokenAliasErrors(allVariables, 1, 1), collections, allVariables)

\* generateTextStyleCSS on the text styles the host returned: nothing for no
\* style, else the header of the section and one entry per style (src: the
\* style's id; the composite properties of the entry are not rendered).
TextStyleEntry(style) ==
  [t |-> "textstyle", coll |-> "", sel |-> "", px |-> 0, name |-> <<>>,
   value |-> CssNull, src |-> style.id, mode |-> ""]

generateTextStyleCSS(textStyles) ==
  IF Len(textStyles) = 0 THEN <<>>
  ELSE << Section("text-styles") >>
       \o [i \in DOMAIN textStyles |-> TextStyleEntry(textStyles[i])]

\* The message the catch of figma.ui.onmessage posts.
errorMessage ==
  [type |-> "error", css |-> <<>>, errors |-> <<>>, collections |-> 0, variables |-> 0,
   viewportRelativeVars |-> <<>>, proportionVars |-> <<>>, nonLinearVars |-> <<>>,
   textStyleCount |-> 0]

\* The next getVariableByIdAsync of the first pass at or after variable vi of
\* collection ci; ci beyond the last collection when there is none.
RECURSIVE nextRead(_, _, _)
nextRead(collections, ci, vi) ==
  IF ci > Len(collections) THEN [ci |-> ci, vi |-> 1]
  ELSE IF collections[ci].remote \/ vi > Len(collections[ci].variableIds)
    THEN nextRead(collections, ci + 1, 1)
  ELSE [ci |-> ci, vi |-> vi]

(***************************************************************************)
(* State                                                                   *)
(***************************************************************************)
MaxRequests == 2
Requests == 1..MaxRequests

VARIABLES
  doc,               \* the host document: [collections, variables] and,
                     \* where text styles are read, textStyles
  script,            \* the generate-css messages the UI sends, in order
  BREAKPOINT_MODES,  \* the module-level width table
  pc,                \* per request: where its handler is suspended
  options,           \* per request: the options of its message
  collections,       \* per request: what getLocalVariableCollectionsAsync returned
  position,          \* per request: [ci, vi] of the pending getVariableByIdAsync
  allVariables,      \* per request: the VariableInfo list of the first pass
  css,               \* per request: the result of generateCSSOutput with the
                     \* statistics gathered so far, NoMessage before emission
  posted             \* per request: the message posted to the UI, NoMessage before

vars == << doc, script, BREAKPOINT_MODES, pc, options, collections, position,
           allVariables, css, posted >>

NoBreakpoints == [desktop |-> 0, laptop |-> 0, tablet |-> 0, mobile |-> 0]

NoOptions ==
  [outputMode |-> "", breakpointDirection |-> "", aliasMode |-> "",
   darkModeOutput |-> "", colorFormat |-> "", includeLegacyFallbacks |-> FALSE,
   viewportRelativeOverrides |-> {}, nonLinearOverrides |-> {},
   includeTextStyles |-> FALSE]

NoMessage ==
  [type |-> "none", css |-> <<>>, errors |-> <<>>, collections |-> 0, variables |-> 0,
   viewportRelativeVars |-> <<>>, proportionVars |-> <<>>, nonLinearVars |-> <<>>,
   textStyleCount |-> 0]

\* The state after the script has loaded, for a document and a UI script.
InitWith(documents, scripts) ==
  /\ doc \in documents
  /\ script \in scripts
  /\ BREAKPOINT_MODES = BREAKPOINT_MODES_INITIAL
  /\ pc = [r \in Requests |-> "idle"]
  /\ options = [r \in Requests |-> NoOptions]
  /\ collections = [r \in Requests |-> <<>>]
  /\ position = [r \in Requests |-> [ci |-> 1, vi |-> 1]]
  /\ allVariables = [r \in Requests |-> <<>>]
  /\ css = [r \in Requests |-> NoMessage]
  /\ posted = [r \in Requests |-> NoMessage]

(***************************************************************************)
(* Actions                                                                 *)
(***************************************************************************)

\* figma.ui.onmessage with the r-th generate-css message: the widths the
\* message supplies (a width of 0 or none is falsy) overwrite the table,
\* then handleGenerateCSS runs up to its first await.
GenerateMessage(r) ==
  /\ pc[r] = "idle"
  /\ r <= Len(script)
  /\ IF r = 1 THEN TRUE ELSE pc[r - 1] # "idle"
  /\ BREAKPOINT_MODES' =
       [key \in DOMAIN BREAKPOINT_MODES |->
          IF script[r].breakpoints[key] # 0 THEN script[r].breakpoints[key]
          ELSE BREAKPOINT_MODES[key]]
  /\ options' = [options EXCEPT ![r] = script[r].options]
  /\ pc' = [pc EXCEPT ![r] = "awaitCollections"]
  /\ UNCHANGED << doc, script, collections, position, allVariables, css, posted >>

\* The first pass suspends at the read `next`, or, with no read left, the
\* handler emits the CSS and then either posts its message or, with
\* includeTextStyles, suspends at its getLocalTextStylesAsync.
Continue(r, cols, collected, next) ==
  /\ allVariables' = [allVariables EXCEPT ![r] = collected]
  /\ position' = [position EXCEPT ![r] = next]
  /\ IF next.ci > Len(cols)
       THEN /\ css' = [css EXCEPT ![r] =
                         cssGenerated(BREAKPOINT_MODES, cols, collected, options[r])]
            /\ IF options[r].includeTextStyles
                 THEN /\ pc' = [pc EXCEPT ![r] = "awaitTextStyles"]
                      /\ UNCHANGED posted
                 ELSE /\ pc' = [pc EXCEPT ![r] = "done"]
                      /\ posted' = [posted EXCEPT ![r] = css'[r]]
       ELSE /\ pc' = [pc EXCEPT ![r] = "awaitVariable"]
            /\ UNCHANGED << css, posted >>

\* getLocalVariableCollectionsAsync resolves: the first pass starts and runs
\* to its first getVariableByIdAsync.
CollectionsReturn(r) ==
  /\ pc[r] = "awaitCollections"
  /\ collections' = [collections EXCEPT ![r] = doc.collections]
  /\ Continue(r, doc.collections, <<>>, nextRead(doc.collections, 1, 1))
  /\ UNCHANGED << doc, script, BREAKPOINT_MODES, options >>

\* What the first pass has collected once the pending read has resolved
\* (null for an id the document does not hold).
collect(r) ==
  LET collection == collections[r][position[r].ci]
      varId      == collection.variableIds[position[r].vi]
  IN  IF varId \in DOMAIN doc.variables
        THEN Append(allVariables[r],
                    makeVariableInfo(doc.variables[varId], collection, options[r]))
        ELSE allVariables[r]

\* getVariableByIdAsync resolves: the variable is collected, and the first
\* pass goes on to the next read.
VariableReturn(r) ==
  /\ pc[r] = "awaitVariable"
  /\ Continue(r, collections[r], collect(r),
              nextRead(collections[r], position[r].ci, position[r].vi + 1))
  /\ UNCHANGED << doc, script, BREAKPOINT_MODES, options, collections >>

\* The getLocalTextStylesAsync of handleGenerateCSS resolves: the styles are
\* counted, and generateTextStyleCSS runs to its own getLocalTextStylesAsync.
TextStylesReturn(r) ==
  /\ pc[r] = "awaitTextStyles"
  /\ css' = [css EXCEPT ![r].textStyleCount = Len(doc.textStyles)]
  /\ pc' = [pc EXCEPT ![r] = "awaitTextStyleLines"]
  /\ UNCHANGED << doc, script, BREAKPOINT_MODES, options, collections, position,
                  allVariables, posted >>

\* The getLocalTextStylesAsync of generateTextStyleCSS resolves: the section
\* of the text styles is appended to the CSS and the message is posted.
TextStyleLinesReturn(r) ==
  /\ pc[r] = "awaitTextStyleLines"
  /\ css' = [css EXCEPT ![r].css = @ \o generateTextStyleCSS(doc.textStyles)]
  /\ posted' = [posted EXCEPT ![r] = css'[r]]
  /\ pc' = [pc EXCEPT ![r] = "done"]
  /\ UNCHANGED << doc, script, BREAKPOINT_MODES, options, collections, position,
                  allVariables >>

\* Where a handler is suspended at a read from the host.
HostReads == {"awaitCollections", "awaitVariable", "awaitTextStyles", "awaitTextStyleLines"}

\* A catch that swallows the rejection and posts nothing.
HostReadThrowsUnanswered(r) ==
  /\ pc[r] \in HostReads
  /\ pc' = [pc EXCEPT ![r] = "failed"]
  /\ UNCHANGED << doc, script, BREAKPOINT_MODES, options, collections, position,
                  allVariables, css, posted >>

\* The pending read of request r rejects: the handler is left through the
\* catch of figma.ui.onmessage, which posts the error.
HostReadThrows(r) ==
  /\ pc[r] \in HostReads
  /\ posted' = [posted EXCEPT ![r] = errorMessage]
  /\ pc' = [pc EXCEPT ![r] = "failed"]
  /\ UNCHANGED << doc, script, BREAKPOINT_MODES, options, collections, position,
                  allVariables, css >>

Next ==
  \E r \in Requests :
     \/ GenerateMessage(r)
     \/ CollectionsReturn(r)
     \/ VariableReturn(r)

\* The handler with the text styles read and with reads that may reject.
NextHost ==
  \E r \in Requests :
     \/ GenerateMessage(r)
     \/ CollectionsReturn(r)
     \/ VariableReturn(r)
     \/ TextStylesReturn(r)
     \/ TextStyleLinesReturn(r)
     \/ HostReadThrows(r)

(***************************************************************************)
(* Host documents and UI scripts                                           *)
(***************************************************************************)
N_SpaceFoundations == <<"S", "p", "a", "c", "e", " ", "-", " ", "F", "o", "u", "n", "d", "a", "t", "i", "o", "n", "s">>
N_SpaceAliases == <<"S", "p", "a", "c", "e", " ", "-", " ", "A", "l", "i", "a", "s", "e", "s">>
N_Space21Aliases == <<"S", "p", "a", "c", "e", " ", "-", " ", "2", ".", "1", " ", "A", "l", "i", "a", "s", "e", "s">>
N_SpaceAliasesExtended == <<"S", "p", "a", "c", "e", " ", "-", " ", "A", "l", "i", "a", "s", "e", "s", " ", "E", "x", "t", "e", "n", "d", "e", "d">>
N_SpaceMappings == <<"S", "p", "a", "c", "e", " ", "-", " ", "M", "a", "p", "p", "i", "n", "g", "s">>
N_ColorFoundations == <<"C", "o", "l", "o", "r", " ", "-", " ", "F", "o", "u", "n", "d", "a", "t", "i", "o", "n", "s">>
N_Desktop == <<"D", "e", "s", "k", "t", "o", "p">>
N_Laptop == <<"L", "a", "p", "t", "o", "p">>
N_Tablet == <<"T", "a", "b", "l", "e", "t">>
N_Mobile == <<"M", "o", "b", "i", "l", "e">>
N_Light == <<"L", "i", "g", "h", "t">>
N_Dark == <<"D", "a", "r", "k">>
N_Mode1 == <<"M", "o", "d", "e", " ", "1">>
N_fixed1 == <<"f", "i", "x", "e", "d", "/", "1">>
N_buttonPaddingX == <<"b", "u", "t", "t", "o", "n", "/", "p", "a", "d", "d", "i", "n", "g", "-", "x">>
N_heights1 == <<"h", "e", "i", "g", "h", "t", "s", "/", "1">>
N_proportionsHalf == <<"g", "r", "i", "d", "/", "p", "r", "o", "p", "o", "r", "t", "i", "o", "n", "s", "/", "h", "a", "l", "f">>
N_fontWeight == <<"f", "o", "n", "t", "/", "w", "e", "i", "g", "h", "t">>
N_fixed2 == <<"f", "i", "x", "e", "d", "/", "2">>

Mode(modeId, name) == [modeId |-> modeId, name |-> name]

HostCollection(id, name, modes, variableIds) ==
  [id |-> id, name |-> name, remote |-> FALSE, modes |-> modes,
   variableIds |-> variableIds]

HostVariable(id, name, resolvedType, valuesByMode) ==
  [id |-> id, name |-> name, description |-> <<>>, resolvedType |-> resolvedType,
   valuesByMode |-> valuesByMode]

\* the variables of a document, by id
ById(variables) == [id \in { v.id : v \in variables } |->
                      CHOOSE v \in variables : v.id = id]

Options(outputMode, breakpointDirection, aliasMode, darkModeOutput) ==
  [outputMode |-> outputMode, breakpointDirection |-> breakpointDirection,
   aliasMode |-> aliasMode, darkModeOutput |-> darkModeOutput, colorFormat |-> "hex",
   includeLegacyFallbacks |-> FALSE, viewportRelativeOverrides |-> {},
   nonLinearOverrides |-> {}, includeTextStyles |-> FALSE]

GenerateCss(breakpoints, opts) ==
  [type |-> "generate-css", breakpoints |-> breakpoints, options |-> opts]

\* The values the type ExportOptions lists for each enumerated option.
ValidOptions(opts) ==
  /\ opts.outputMode \in {"fluid", "fixed"}
  /\ opts.breakpointDirection \in {"mobile-first", "desktop-first"}
  /\ opts.aliasMode \in {"preserved", "resolved"}
  /\ opts.darkModeOutput \in {"prefers-color-scheme", "class", "both"}
  /\ opts.colorFormat \in {"hex", "oklch"}

(***************************************************************************)
(* Spec: one request over a foundations collection and an aliases          *)
(* collection of the same domain.  The aliases collection has two modes,   *)
(* widths or themes; its variable A1 has the name of the foundations       *)
(* variable F1, so both produce --space-fixed-1; in each mode A1 holds a   *)
(* literal or an alias to F1, and A2 a literal, an alias to F1, an alias   *)
(* to itself or an alias to a variable the document does not hold.         *)
(***************************************************************************)
A1Values == { RawNumber(2000), RawAlias("F1") }
A2Values == { RawNumber(16000), RawAlias("F1"), RawAlias("A2"), RawAlias("gone") }

DedupDocument(foundationsFirst, themed, a1, a2, b1, b2) ==
  LET foundations == HostCollection("F", N_SpaceFoundations,
                                    << Mode("f", N_Mode1) >>, << "F1" >>)
      aliases == HostCollection("A", N_SpaceAliases,
                   IF themed THEN << Mode("m1", N_Light), Mode("m2", N_Dark) >>
                   ELSE << Mode("m1", N_Desktop), Mode("m2", N_Mobile) >>,
                   << "A1", "A2" >>)
  IN  [collections |-> IF foundationsFirst THEN << foundations, aliases >>
                       ELSE << aliases, foundations >>,
       variables |-> ById({
         HostVariable("F1", N_fixed1, "FLOAT", "f" :> RawNumber(4000)),
         HostVariable("A1", N_fixed1, "FLOAT", ("m1" :> a1) @@ ("m2" :> a2)),
         HostVariable("A2", N_buttonPaddingX, "FLOAT", ("m1" :> b1) @@ ("m2" :> b2)) })]

DedupDocuments ==
  { DedupDocument(foundationsFirst, themed, a1, a2, b1, b2) :
      foundationsFirst \in BOOLEAN, themed \in BOOLEAN,
      a1 \in A1Values, a2 \in A1Values, b1 \in A2Values, b2 \in A2Values }

\* every combination of the listed values (darkModeOutput: both), and one
\* request for each option holding a value outside its list
DedupOptions ==
  { Options(outputMode, breakpointDirection, aliasMode, "both") :
      outputMode \in {"fluid", "fixed"},
      breakpointDirection \in {"mobile-first", "desktop-first"},
      aliasMode \in {"preserved", "resolved"} }
  \cup { Options("stepped", "desktop-first", "preserved", "both"),
         Options("fixed", "tablet-first", "preserved", "both"),
         Options("fixed", "desktop-first", "flattened", "both"),
         Options("fixed", "desktop-first", "preserved", "auto") }

DedupScripts == { << GenerateCss(NoBreakpoints, opts) >> : opts \in DedupOptions }

Init == InitWith(DedupDocuments, DedupScripts)

Spec == Init /\ [][Next]_vars

(***************************************************************************)
(* SpecFluid: one request over one breakpoint collection holding a number  *)
(* (heights/1), a grid proportion (grid/proportions/half) and a unitless   *)
(* number (font/weight), each with values that differ across the modes or  *)
(* not; two to four modes, in the host's order; fixed and fluid output in  *)
(* both directions, with or without the overrides and the legacy fallback; *)
(* the default widths or widths the UI supplies.                           *)
(***************************************************************************)
N_DimensionFoundations == <<"D", "i", "m", "e", "n", "s", "i", "o", "n", " ", "-", " ", "F", "o", "u", "n", "d", "a", "t", "i", "o", "n", "s">>
N_brandPrimary == <<"b", "r", "a", "n", "d", "/", "p", "r", "i", "m", "a", "r", "y">>
N_gap == <<"g", "a", "p">>
D_dimension == <<"d", "i", "m", "e", "n", "s", "i", "o", "n">>

ModeLists ==
  { << Mode("d", N_Desktop), Mode("m", N_Mobile) >>,
    << Mode("m", N_Mobile), Mode("d", N_Desktop) >>,
    << Mode("d", N_Desktop), Mode("t", N_Tablet), Mode("m", N_Mobile) >>,
    << Mode("d", N_Desktop), Mode("l", N_Laptop), Mode("t", N_Tablet),
       Mode("m", N_Mobile) >> }

\* values in thousandths for the modes d, l, t, m
Profile(d, l, t, m) == ("d" :> d) @@ ("l" :> l) @@ ("t" :> t) @@ ("m" :> m)

HeightProfiles ==
  { Profile(32000, 30000, 28000, 25600), Profile(32000, 32000, 32000, 32000),
    Profile(100000, 70000, 40000, 10000), Profile(16000, 18000, 20000, 24000) }
ProportionProfiles ==
  { Profile(840000, 840000, 840000, 840000), Profile(840000, 683000, 420000, 240000) }
WeightProfiles ==
  { Profile(400000, 400000, 400000, 400000), Profile(700000, 600000, 500000, 400000) }

FluidDocument(modes, heights, proportions, weights) ==
  LET modeIds == { modes[i].modeId : i \in DOMAIN modes }
      values(profile) == [modeId \in modeIds |-> RawNumber(profile[modeId])]
  IN  [collections |->
         << HostCollection("D", N_DimensionFoundations, modes, << "H", "P", "W" >>) >>,
       variables |-> ById({
         HostVariable("H", N_heights1, "FLOAT", values(heights)),
         HostVariable("P", N_proportionsHalf, "FLOAT", values(proportions)),
         HostVariable("W", N_fontWeight, "FLOAT", values(weights)) })]

FluidDocuments ==
  { FluidDocument(modes, heights, proportions, weights) :
      modes \in ModeLists, heights \in HeightProfiles,
      proportions \in ProportionProfiles, weights \in WeightProfiles }

\* the identifier of heights/1, as the UI has it from the candidate lists
HeightsCssName == generateCSSName(N_heights1, D_dimension, "foundations")

FluidOptions ==
  { [Options("fluid", breakpointDirection, "preserved", "both") EXCEPT
       !.includeLegacyFallbacks = legacy,
       !.viewportRelativeOverrides = viewport,
       !.nonLinearOverrides = nonLinear] :
      breakpointDirection \in {"mobile-first", "desktop-first"},
      legacy \in BOOLEAN,
      viewport \in {{}, {HeightsCssName}},
      nonLinear \in {{}, {HeightsCssName}} }
  \cup { Options("fixed", breakpointDirection, "preserved", "both") :
           breakpointDirection \in {"mobile-first", "desktop-first"} }

SuppliedBreakpoints ==
  { NoBreakpoints,
    [desktop |-> 1440, laptop |-> 0, tablet |-> 0, mobile |-> 0],
    [desktop |-> 1920, laptop |-> 1280, tablet |-> 768, mobile |-> 360] }

FluidScripts ==
  { << GenerateCss(breakpoints, opts) >> :
      breakpoints \in { NoBreakpoints,
                        [desktop |-> 1920, laptop |-> 1280, tablet |-> 768,
                         mobile |-> 360] },
      opts \in FluidOptions }

InitFluid == InitWith(FluidDocuments, FluidScripts)

SpecFluid == InitFluid /\ [][Next]_vars

(***************************************************************************)
(* SpecRequests: MaxRequests requests over one three-mode breakpoint       *)
(* collection, each supplying none, one or all of the widths, with fixed   *)
(* or fluid output; the handlers interleave at their awaits.               *)
(***************************************************************************)
RequestsDocuments ==
  { FluidDocument(<< Mode("d", N_Desktop), Mode("t", N_Tablet), Mode("m", N_Mobile) >>,
                  Profile(32000, 30000, 28000, 25600),
                  Profile(840000, 683000, 420000, 240000),
                  Profile(400000, 400000, 400000, 400000)) }

RequestMessages ==
  { GenerateCss(breakpoints, Options(outputMode, "desktop-first", "preserved", "both")) :
      breakpoints \in SuppliedBreakpoints, outputMode \in {"fluid", "fixed"} }

RequestsScripts == [Requests -> RequestMessages]

InitRequests == InitWith(RequestsDocuments, RequestsScripts)

SpecRequests == InitRequests /\ [][Next]_vars

(***************************************************************************)
(* SpecOrder: one request over two to MaxCollections single-mode           *)
(* collections, any selection from eight in any discovery order, the two   *)
(* variables of Space - Foundations in either order.                       *)
(***************************************************************************)
N_SpaceTokens == <<"S", "p", "a", "c", "e", " ", "-", " ", "T", "o", "k", "e", "n", "s">>
N_SpaceUtilities == <<"S", "p", "a", "c", "e", " ", "-", " ", "U", "t", "i", "l", "i", "t", "i", "e", "s">>
N_radiusSm == <<"r", "a", "d", "i", "u", "s", "/", "s", "m">>

MaxCollections == 3

OrderPool ==
  << HostCollection("SF", N_SpaceFoundations, << Mode("f", N_Mode1) >>, << "SF1", "SF2" >>),
     HostCollection("SA", N_SpaceAliases, << Mode("f", N_Mode1) >>, << "SA1" >>),
     HostCollection("S21", N_Space21Aliases, << Mode("f", N_Mode1) >>, << "S211" >>),
     HostCollection("SE", N_SpaceAliasesExtended, << Mode("f", N_Mode1) >>, << "SE1" >>),
     HostCollection("SM", N_SpaceMappings, << Mode("f", N_Mode1) >>, << "SM1" >>),
     HostCollection("CF", N_ColorFoundations, << Mode("f", N_Mode1) >>, << "CF1" >>),
     HostCollection("ST", N_SpaceTokens, << Mode("f", N_Mode1) >>, << "ST1" >>),
     HostCollection("SU", N_SpaceUtilities, << Mode("f", N_Mode1) >>, << "SU1" >>) >>

OrderVariables ==
  ById({ HostVariable("SF1", N_fixed1, "FLOAT", "f" :> RawNumber(4000)),
         HostVariable("SF2", N_fixed2, "FLOAT", "f" :> RawNumber(8000)),
         HostVariable("SA1", N_buttonPaddingX, "FLOAT", "f" :> RawNumber(16000)),
         HostVariable("S211", N_heights1, "FLOAT", "f" :> RawNumber(32000)),
         HostVariable("SE1", N_fontWeight, "FLOAT", "f" :> RawNumber(400000)),
         HostVariable("SM1", N_gap, "FLOAT", "f" :> RawNumber(24000)),
         HostVariable("CF1", N_brandPrimary, "COLOR", "f" :> RawColor(16711680)),
         HostVariable("ST1", N_proportionsHalf, "FLOAT", "f" :> RawNumber(840000)),
         HostVariable("SU1", N_radiusSm, "FLOAT", "f" :> RawNumber(2000)) })

\* the injective sequences of length 2..MaxCollections over the pool
Selections ==
  UNION { { sel \in [1..n -> DOMAIN OrderPool] :
              \A i \in 1..n : \A j \in 1..n : sel[i] = sel[j] => i = j } :
          n \in 2..MaxCollections }

Reverse(seq) == [i \in DOMAIN seq |-> seq[Len(seq) + 1 - i]]

OrderDocument(sel, reversed) ==
  [collections |->
     [i \in DOMAIN sel |->
        IF reversed
          THEN [OrderPool[sel[i]] EXCEPT !.variableIds = Reverse(@)]
          ELSE OrderPool[sel[i]]],
   variables |-> OrderVariables]

OrderDocuments ==
  { OrderDocument(sel, reversed) : sel \in Selections, reversed \in BOOLEAN }

OrderScripts ==
  { << GenerateCss(NoBreakpoints, Options("fixed", "desktop-first", "preserved", "both")) >> }

InitOrder == InitWith(OrderDocuments, OrderScripts)

SpecOrder == InitOrder /\ [][Next]_vars

(***************************************************************************)
(* SpecNames: one request over one collection with one variable, the name  *)
(* of the collection and the name of the variable drawn from names with    *)
(* and without the words of the proportion table, with capitals, runs of   *)
(* separators, separators at the ends and characters outside a-z0-9-; the  *)
(* collection has one mode or the modes Desktop and Mobile.                *)
(***************************************************************************)
N_proportionsWhole == <<"g", "r", "i", "d", "/", "p", "r", "o", "p", "o", "r", "t", "i", "o", "n", "s", "/", "w", "h", "o", "l", "e">>
N_proportionsThreeQuarters == <<"g", "r", "i", "d", "/", "p", "r", "o", "p", "o", "r", "t", "i", "o", "n", "s", "/", "t", "h", "r", "e", "e", "-", "q", "u", "a", "r", "t", "e", "r", "s">>
N_proportionsTwoThirds == <<"g", "r", "i", "d", "/", "p", "r", "o", "p", "o", "r", "t", "i", "o", "n", "s", "/", "t", "w", "o", "-", "t", "h", "i", "r", "d", "s">>
N_proportionsThird == <<"g", "r", "i", "d", "/", "p", "r", "o", "p", "o", "r", "t", "i", "o", "n", "s", "/", "t", "h", "i", "r", "d">>
N_proportionsQuarter == <<"g", "r", "i", "d", "/", "p", "r", "o", "p", "o", "r", "t", "i", "o", "n", "s", "/", "q", "u", "a", "r", "t", "e", "r">>
N_gridHalf == <<"g", "r", "i", "d", "/", "h", "a", "l", "f">>
N_proportionsViewportHalf == <<"g", "r", "i", "d", "/", "p", "r", "o", "p", "o", "r", "t", "i", "o", "n", "s", "/", "v", "i", "e", "w", "p", "o", "r", "t", "-", "h", "a", "l", "f">>
N_ProportionsTwoThirdsSpaced == <<"G", "r", "i", "d", "/", "P", "r", "o", "p", "o", "r", "t", "i", "o", "n", "s", "/", "T", "w", "o", " ", "T", "h", "i", "r", "d", "s">>
N_proportionsFull == <<"g", "r", "i", "d", "/", "p", "r", "o", "p", "o", "r", "t", "i", "o", "n", "s", "/", "f", "u", "l", "l">>
N_StrokeWidth == <<"S", "t", "r", "o", "k", "e", "-", "-", "W", "i", "d", "t", "h">>
N_slashes == <<"a", "/", "/", "/", "b">>
N_leadingSlash == <<"/", "l", "e", "a", "d", "/">>
N_sizeAt2x == <<"s", "i", "z", "e", "@", "2", "x">>
N_onlySlashes == <<"/", "/", "/">>
N_spaceGap == <<"s", "p", "a", "c", "e", "/", "g", "a", "p">>
N_MyTokens == <<"M", "y", " ", "T", "o", "k", "e", "n", "s">>

CollectionNames == { N_SpaceFoundations, N_SpaceMappings, N_SpaceTokens, N_MyTokens }

VariableNames ==
  { N_proportionsWhole, N_proportionsThreeQuarters, N_proportionsTwoThirds,
    N_proportionsHalf, N_proportionsThird, N_proportionsQuarter, N_gridHalf,
    N_proportionsViewportHalf, N_ProportionsTwoThirdsSpaced, N_proportionsFull,
    N_StrokeWidth, N_slashes, N_leadingSlash, N_sizeAt2x, N_onlySlashes,
    N_spaceGap }

NameDocument(collectionName, modes, variableName) ==
  [collections |-> << HostCollection("N", collectionName, modes, << "V" >>) >>,
   variables |-> ById({
     HostVariable("V", variableName, "FLOAT",
                  [modeId \in { modes[i].modeId : i \in DOMAIN modes } |->
                     RawNumber(IF modeId = "m" THEN 420000 ELSE 840000)]) })]

NameDocuments ==
  { NameDocument(collectionName, modes, variableName) :
      collectionName \in CollectionNames,
      modes \in { << Mode("f", N_Mode1) >>,
                  << Mode("d", N_Desktop), Mode("m", N_Mobile) >> },
      variableName \in VariableNames }

NameScripts ==
  { << GenerateCss(NoBreakpoints, Options(outputMode, "desktop-first", "preserved", "both")) >> :
      outputMode \in {"fixed", "fluid"} }

InitNames == InitWith(NameDocuments, NameScripts)

SpecNames == InitNames /\ [][Next]_vars

(***************************************************************************)
(* SpecModes: one request over one collection of one or two modes, named   *)
(* after widths, themes or neither, with two numbers: fixed/1, whose value *)
(* in each mode is a number, missing, a text where a number belongs, or an *)
(* alias of fixed/2, and fixed/2, which holds a number in every mode.      *)
(***************************************************************************)
N_Mode2 == <<"M", "o", "d", "e", " ", "2">>
N_malformed == <<"n", "/", "a">>

ModeNameLists ==
  { << N_Mode1 >>, << N_Desktop >>, << N_Desktop, N_Mobile >>, << N_Light, N_Dark >>,
    << N_Mode1, N_Mode2 >>, << N_Desktop, N_Mode2 >>, << N_Light, N_Mode2 >> }

ModeValues(n) == { RawNumber(n), RawUndefined, RawString(N_malformed), RawAlias("V2") }

ModesDocument(modeNames, values) ==
  LET modes == [i \in DOMAIN modeNames |->
                  Mode(IF i = 1 THEN "m1" ELSE "m2", modeNames[i])]
      modeIds == { modes[i].modeId : i \in DOMAIN modes }
  IN  [collections |->
         << HostCollection("S", N_SpaceFoundations, modes, << "V1", "V2" >>) >>,
       variables |-> ById({
         HostVariable("V1", N_fixed1, "FLOAT", [modeId \in modeIds |-> values[modeId]]),
         HostVariable("V2", N_fixed2, "FLOAT",
                      [modeId \in modeIds |->
                         RawNumber(IF modeId = "m1" THEN 30000 ELSE 40000)]) })]

ModesDocuments ==
  { ModesDocument(modeNames, ("m1" :> v1) @@ ("m2" :> v2)) :
      modeNames \in ModeNameLists, v1 \in ModeValues(10000), v2 \in ModeValues(20000) }

ModesScripts ==
  { << GenerateCss(NoBreakpoints, Options(outputMode, breakpointDirection, "preserved", "both")) >> :
      outputMode \in {"fixed", "fluid"},
      breakpointDirection \in {"mobile-first", "desktop-first"} }

InitModes == InitWith(ModesDocuments, ModesScripts)

SpecModes == InitModes /\ [][Next]_vars

(***************************************************************************)
(* SpecMedia: one request over one breakpoint collection of two to four    *)
(* modes, given in any order, two of them of one width in one of the       *)
(* lists.  heights/1 holds a number in every mode; gap holds numbers, an   *)
(* alias of heights/1 in every mode, or the alias in the Desktop or the    *)
(* Mobile mode only; the text family/primary is the same in every mode or  *)
(* differs in Desktop.  The request supplies no width, or a Desktop        *)
(* width equal to or below the Mobile one.                                 *)
(***************************************************************************)
N_DesktopWide == <<"D", "e", "s", "k", "t", "o", "p", " ", "W", "i", "d", "e">>
N_familyPrimary == <<"f", "a", "m", "i", "l", "y", "/", "p", "r", "i", "m", "a", "r", "y">>
N_Inter == <<"I", "n", "t", "e", "r">>
N_Roboto == <<"R", "o", "b", "o", "t", "o">>

MediaModeLists ==
  { << Mode("d", N_Desktop), Mode("m", N_Mobile) >>,
    << Mode("m", N_Mobile), Mode("t", N_Tablet), Mode("d", N_Desktop) >>,
    << Mode("d", N_Desktop), Mode("l", N_Laptop), Mode("t", N_Tablet),
       Mode("m", N_Mobile) >>,
    << Mode("d", N_Desktop), Mode("w", N_DesktopWide), Mode("m", N_Mobile) >> }

MediaHeights ==
  ("d" :> 32000) @@ ("w" :> 31000) @@ ("l" :> 30000) @@ ("t" :> 28000) @@ ("m" :> 25600)
MediaGaps ==
  ("d" :> 16000) @@ ("w" :> 14000) @@ ("l" :> 12000) @@ ("t" :> 10000) @@ ("m" :> 8000)

GapPatterns == {"numbers", "aliases", "aliasInDesktop", "aliasInMobile"}
GapValue(pattern, modeId) ==
  IF \/ pattern = "aliases"
     \/ pattern = "aliasInDesktop" /\ modeId = "d"
     \/ pattern = "aliasInMobile" /\ modeId = "m"
    THEN RawAlias("T")
    ELSE RawNumber(MediaGaps[modeId])

MediaDocument(modes, gapPattern, familyDiffers) ==
  LET modeIds == { modes[i].modeId : i \in DOMAIN modes }
  IN  [collections |->
         << HostCollection("D", N_DimensionFoundations, modes, << "T", "G", "S" >>) >>,
       variables |-> ById({
         HostVariable("T", N_heights1, "FLOAT",
                      [modeId \in modeIds |-> RawNumber(MediaHeights[modeId])]),
         HostVariable("G", N_gap, "FLOAT",
                      [modeId \in modeIds |-> GapValue(gapPattern, modeId)]),
         HostVariable("S", N_familyPrimary, "STRING",
                      [modeId \in modeIds |->
                         RawString(IF familyDiffers /\ modeId = "d" THEN N_Roboto
                                   ELSE N_Inter)]) })]

MediaDocuments ==
  { MediaDocument(modes, gapPattern, familyDiffers) :
      modes \in MediaModeLists, gapPattern \in GapPatterns, familyDiffers \in BOOLEAN }

MediaOptions ==
  { [Options(outputMode, breakpointDirection, "preserved", "both") EXCEPT
       !.includeLegacyFallbacks = legacy] :
      outputMode \in {"fluid", "fixed"},
      breakpointDirection \in {"mobile-first", "desktop-first"},
      legacy \in BOOLEAN }

MediaBreakpoints ==
  { NoBreakpoints,
    [desktop |-> 480, laptop |-> 0, tablet |-> 0, mobile |-> 0],
    [desktop |-> 400, laptop |-> 0, tablet |-> 0, mobile |-> 0] }

MediaScripts ==
  { << GenerateCss(breakpoints, opts) >> :
      breakpoints \in MediaBreakpoints, opts \in MediaOptions }

InitMedia == InitWith(MediaDocuments, MediaScripts)

SpecMedia == InitMedia /\ [][Next]_vars

(***************************************************************************)
(* SpecThemes: one request over one theme collection with the modes Light  *)
(* and Dark in either order, or Light beside a mode that is no theme, a    *)
(* color and a number in it, under every darkModeOutput of the UI.         *)
(***************************************************************************)
ThemeModeLists ==
  { << Mode("m1", N_Light), Mode("m2", N_Dark) >>,
    << Mode("m1", N_Dark), Mode("m2", N_Light) >>,
    << Mode("m1", N_Light), Mode("m2", N_Mode2) >> }

ThemeDocument(modes, secondColor) ==
  [collections |->
     << HostCollection("C", N_ColorFoundations, modes, << "B", "V" >>) >>,
   variables |-> ById({
     HostVariable("B", N_brandPrimary, "COLOR",
                  ("m1" :> RawColor(16777215)) @@ ("m2" :> RawColor(secondColor))),
     HostVariable("V", N_fixed1, "FLOAT",
                  ("m1" :> RawNumber(4000)) @@ ("m2" :> RawNumber(4000))) })]

ThemeDocuments ==
  { ThemeDocument(modes, secondColor) :
      modes \in ThemeModeLists, secondColor \in {16777215, 1118481} }

ThemeScripts ==
  { << GenerateCss(NoBreakpoints,
                   Options(outputMode, breakpointDirection, "preserved", darkModeOutput)) >> :
      outputMode \in {"fixed", "fluid"},
      breakpointDirection \in {"mobile-first", "desktop-first"},
      darkModeOutput \in {"prefers-color-scheme", "class", "both"} }

InitThemes == InitWith(ThemeDocuments, ThemeScripts)

SpecThemes == InitThemes /\ [][Next]_vars

(***************************************************************************)
(* SpecShared: one request over two collections of the domain space, in    *)
(* either discovery order, each with a variable fixed/1: two foundations   *)
(* collections, a foundations collection beside another layer, or two      *)
(* other layers.  The second collection has one mode or the modes Desktop  *)
(* and Mobile.                                                             *)
(***************************************************************************)
N_SpaceCoreFoundations == <<"S", "p", "a", "c", "e", " ", "-", " ", "C", "o", "r", "e", " ", "F", "o", "u", "n", "d", "a", "t", "i", "o", "n", "s">>

SharedNames ==
  << N_SpaceFoundations, N_SpaceCoreFoundations, N_SpaceAliases, N_SpaceTokens >>

SharedDocument(first, second, secondByWidth) ==
  [collections |->
     << HostCollection("X", SharedNames[first], << Mode("x", N_Mode1) >>, << "X1" >>),
        HostCollection("Y", SharedNames[second],
                       IF secondByWidth
                         THEN << Mode("y1", N_Desktop), Mode("y2", N_Mobile) >>
                         ELSE << Mode("y1", N_Mode1) >>,
                       << "Y1" >>) >>,
   variables |-> ById({
     HostVariable("X1", N_fixed1, "FLOAT", "x" :> RawNumber(4000)),
     HostVariable("Y1", N_fixed1, "FLOAT",
                  ("y1" :> RawNumber(8000)) @@ ("y2" :> RawNumber(6000))) })]

SharedDocuments ==
  { SharedDocument(pair[1], pair[2], secondByWidth) :
      pair \in { p \in (DOMAIN SharedNames) \X (DOMAIN SharedNames) : p[1] # p[2] },
      secondByWidth \in BOOLEAN }

SharedScripts ==
  { << GenerateCss(NoBreakpoints,
                   Options(outputMode, breakpointDirection, "preserved", "both")) >> :
      outputMode \in {"fixed", "fluid"},
      breakpointDirection \in {"mobile-first", "desktop-first"} }

InitShared == InitWith(SharedDocuments, SharedScripts)

SpecShared == InitShared /\ [][Next]_vars

(***************************************************************************)
(* SpecStyles: two generate-css messages, each with or without             *)
(* includeTextStyles, over a document of two collections and none, one or  *)
(* two text styles; every read from the host returns or rejects.           *)
(* SpecReplies is SpecStyles where no pending read stays pending forever.  *)
(***************************************************************************)
TextStyle(id) == [id |-> id]

TextStyleLists == { <<>>, << TextStyle("T1") >>, << TextStyle("T1"), TextStyle("T2") >> }

StyleDocument(secondByWidth, textStyles) ==
  [collections |-> SharedDocument(1, 3, secondByWidth).collections,
   variables   |-> SharedDocument(1, 3, secondByWidth).variables,
   textStyles  |-> textStyles]

StyleDocuments ==
  { StyleDocument(secondByWidth, textStyles) :
      secondByWidth \in BOOLEAN, textStyles \in TextStyleLists }

StyleOptions(includeTextStyles) ==
  [Options("fixed", "desktop-first", "preserved", "both")
     EXCEPT !.includeTextStyles = includeTextStyles]

StyleScripts ==
  { << GenerateCss(NoBreakpoints, StyleOptions(first)),
       GenerateCss(breakpoints, StyleOptions(second)) >> :
      first \in BOOLEAN, second \in BOOLEAN,
      breakpoints \in { NoBreakpoints,
                        [desktop |-> 1440, laptop |-> 0, tablet |-> 0, mobile |-> 0] } }

InitStyles == InitWith(StyleDocuments, StyleScripts)

SpecStyles == InitStyles /\ [][NextHost]_vars

\* The pending read of request r returns or rejects.
HostReadSettles(r) ==
  \/ HostReadThrows(r)
  \/ CollectionsReturn(r)
  \/ VariableReturn(r)
  \/ TextStylesReturn(r)
  \/ TextStyleLinesReturn(r)

SpecReplies == SpecStyles /\ \A r \in Requests : WF_vars(HostReadSettles(r))

(***************************************************************************)
(* Properties of one generation (Spec)                                     *)
(***************************************************************************)
Done(r) == pc[r] = "done"
Css(r) == posted[r].css
DeclsOf(r) == { i \in DOMAIN Css(r) : Css(r)[i].t = "decl" }
Collected(r) == Range(allVariables[r])
CollectedIds(r) == { v.id : v \in Collected(r) }

\* The alias references of the collected variables whose target is not
\* among the collected variables, read from the host document: <<id, modeId>>.
BrokenRefs(r) ==
  { ref \in UNION { {v.id} \X DOMAIN doc.variables[v.id].valuesByMode : v \in Collected(r) } :
      /\ doc.variables[ref[1]].valuesByMode[ref[2]].tag = "alias"
      /\ doc.variables[ref[1]].valuesByMode[ref[2]].id \notin CollectedIds(r) }

Diagnostic(name) == BrokenAliasPrefix \o name \o BrokenAliasSuffix

\* C1: when a foundations variable and an aliases variable produce the same
\* identifier, every declaration of that identifier in the output comes from
\* the foundations variable and none from the aliases variable, whatever
\* the order the two collections are discovered in.
C1_OnlyFoundationsDeclared ==
  \A r \in Requests : Done(r) =>
    \A f \in Collected(r) : \A a \in Collected(r) :
      (f.layerType = "foundations" /\ a.layerType = "aliases" /\ f.cssName = a.cssName)
        => \A i \in DeclsOf(r) :
              Css(r)[i].name = f.cssName => Css(r)[i].src = f.id

\* C2: a variable that in some mode is an alias whose target resolves to the
\* variable's own identifier is declared in no block of the output, and no
\* diagnostic names it unless it also holds an alias to an unknown variable.
C2_SelfAliasNeverDeclared ==
  \A r \in Requests : Done(r) =>
    \A v \in Range(resolveAliasNames(allVariables[r])) :
      (\E m \in DOMAIN v.valuesByMode :
          v.valuesByMode[m].isAlias /\ v.valuesByMode[m].aliasName = v.cssName)
        => /\ \A i \in DeclsOf(r) : Css(r)[i].src # v.id
           /\ (\A ref \in BrokenRefs(r) : ref[1] # v.id)
                => \A k \in DOMAIN posted[r].errors :
                      posted[r].errors[k] # Diagnostic(v.name)

\* C3: with aliasMode = resolved, an aliases variable that in every mode is
\* an alias to a variable holding the literal n, and whose identifier no
\* other variable produces, is declared with the literal n in px.
C3_ResolvedDeclaresTargetLiteral ==
  \A r \in Requests : (Done(r) /\ options[r].aliasMode = "resolved") =>
    \A v \in Collected(r) :
      LET raw == doc.variables[v.id].valuesByMode
          targetsLiteral ==
            \A m \in DOMAIN raw :
               /\ raw[m].tag = "alias"
               /\ raw[m].id \in CollectedIds(r)
               /\ \A tm \in DOMAIN doc.variables[raw[m].id].valuesByMode :
                     doc.variables[raw[m].id].valuesByMode[tm].tag = "number"
          literalOf(m) ==
            LET target == doc.variables[raw[m].id].valuesByMode
            IN  target[CHOOSE tm \in DOMAIN target : TRUE].n
      IN  (/\ targetsLiteral
           /\ \A w \in Collected(r) : w.cssName = v.cssName => w.id = v.id)
            => \E i \in DeclsOf(r) :
                  /\ Css(r)[i].src = v.id
                  /\ Css(r)[i].name = v.cssName
                  /\ Css(r)[i].value = CssNumber(round2(literalOf(Css(r)[i].mode)), "px")

\* C4: for each alias reference whose target is not among the variables of
\* the document, the generation runs to its end and posts css-generated,
\* the diagnostics hold exactly one entry naming the source variable for
\* that reference (and none for anything else), and the output holds no
\* declaration formatted from that reference.
C4_BrokenAliasDiagnosedOnce ==
  \A r \in Requests : Done(r) =>
    /\ posted[r].type = "css-generated"
    /\ Len(posted[r].errors) = Cardinality(BrokenRefs(r))
    /\ \A v \in Collected(r) :
          Cardinality({ k \in DOMAIN posted[r].errors :
                          posted[r].errors[k] = Diagnostic(v.name) })
            = Cardinality({ ref \in BrokenRefs(r) :
                              doc.variables[ref[1]].name = v.name })
    /\ \A ref \in BrokenRefs(r) : \A i \in DeclsOf(r) :
          ~(Css(r)[i].src = ref[1] /\ Css(r)[i].mode = ref[2])

\* A generation has ended over a variable whose two modes both reference an
\* unknown variable, with two diagnostics and with declarations of others.
C4_TwoBrokenReferences ==
  \E r \in Requests :
     /\ Done(r)
     /\ Cardinality(BrokenRefs(r)) = 2
     /\ Len(posted[r].errors) = 2
     /\ DeclsOf(r) # {}

\* C5: a request whose options hold a value outside its enumerated set reads
\* no collection and no variable and gets no CSS.
C5_InvalidOptionsRejected ==
  \A r \in Requests : (pc[r] # "idle" /\ ~ValidOptions(options[r])) =>
    /\ collections[r] = <<>>
    /\ allVariables[r] = <<>>
    /\ posted[r].type # "css-generated"

\* The variables collected from collection c whose identifier no other
\* collected variable produces.
SoleOwnersIn(r, c) ==
  { v \in Collected(r) :
      /\ v.collectionId = c.id
      /\ \A w \in Collected(r) : w.cssName = v.cssName => w.id = v.id }

\* C12: in a collection with a light and a dark mode, with the
\* prefers-color-scheme blocks selected, a variable that holds the same
\* literal in the light and in the dark mode is declared with it in the
\* prefers-color-scheme: light block and in the prefers-color-scheme: dark
\* block.
C12_IdenticalThemeValuesDeclaredInBoth ==
  \A r \in Requests :
    (Done(r) /\ options[r].darkModeOutput \in {"prefers-color-scheme", "both"}) =>
      \A c \in Range(collections[r]) :
        \A light \in Range(c.modes) : \A dark \in Range(c.modes) :
          (/\ Contains(toLowerCase(light.name), KW_light)
           /\ Contains(toLowerCase(dark.name), KW_dark)) =>
            \A v \in SoleOwnersIn(r, c) :
              LET raw == doc.variables[v.id].valuesByMode
                  declaredIn(sel, modeId) ==
                    \E i \in DeclsOf(r) :
                       /\ Css(r)[i].coll = c.id
                       /\ Css(r)[i].sel = sel
                       /\ Css(r)[i].name = v.cssName
                       /\ Css(r)[i].mode = modeId
                       /\ Css(r)[i].value =
                            CssNumber(round2(raw[modeId].n),
                                      IF v.unitless THEN "" ELSE "px")
              IN  (raw[light.modeId].tag = "number" /\ raw[dark.modeId] = raw[light.modeId])
                    => /\ declaredIn("prefers-light", light.modeId)
                       /\ declaredIn("prefers-dark", dark.modeId)

\* A generation has ended over a Light/Dark collection whose variable
\* button/padding-x is 16 in both modes, with `16px` declared in the
\* prefers-color-scheme: dark block.
C12_SameValueInDarkBlock ==
  \E r \in Requests :
     /\ Done(r)
     /\ \E v \in Collected(r) :
          /\ \A m \in DOMAIN doc.variables[v.id].valuesByMode :
                doc.variables[v.id].valuesByMode[m] = RawNumber(16000)
          /\ \E i \in DeclsOf(r) :
                /\ Css(r)[i].src = v.id
                /\ Css(r)[i].sel = "prefers-dark"
                /\ Css(r)[i].value = CssNumber(1600, "px")
          /\ \E i \in DeclsOf(r) :
                /\ Css(r)[i].src = v.id
                /\ Css(r)[i].sel = "prefers-light"
                /\ Css(r)[i].value = CssNumber(1600, "px")

(***************************************************************************)
(* Properties of a sequence of requests (SpecRequests)                     *)
(***************************************************************************)
\* The widths a request supplies, the initial table where it supplies none.
ExpectedWidths(supplied) ==
  [key \in DOMAIN BREAKPOINT_MODES_INITIAL |->
     IF supplied[key] # 0 THEN supplied[key] ELSE BREAKPOINT_MODES_INITIAL[key]]

\* C6: the output of every request is the output under the widths supplied
\* with that request and the defaults 1680/1366/840/480 for the widths it
\* does not supply, whatever the requests before it supplied.
C6_WidthsOfThisRequest ==
  \A r \in Requests : Done(r) =>
    Css(r) = generateCSSOutput(ExpectedWidths(script[r].breakpoints),
                               resolveAliasNames(allVariables[r]),
                               collections[r], options[r]).lines

(***************************************************************************)
(* Properties of the order of the output (SpecOrder)                       *)
(***************************************************************************)
\* The collections of the section headers of the output, in output order.
SectionsOf(r) ==
  LET isSection(line) == line.t = "section"
      headers == SelectSeq(Css(r), isSection)
  IN  [i \in DOMAIN headers |->
         CHOOSE c \in Range(collections[r]) : c.id = headers[i].coll]

\* The position at which the host returned the collection.
DiscoveredAt(r, c) == CHOOSE i \in DOMAIN collections[r] : collections[r][i].id = c.id

LayerRank(layerType) ==
  CASE layerType = "foundations"      -> 0
    [] layerType = "aliases"          -> 1
    [] layerType = "aliases-extended" -> 2
    [] layerType = "mappings"         -> 3
    [] OTHER                          -> 4

\* C7: the sections of the output are in ascending order of domain and,
\* within one domain, in ascending rank of the layer type derived from the
\* collection's name: foundations, aliases, aliases-extended, mappings, other.
C7_SectionsByDomainThenLayerType ==
  \A r \in Requests : Done(r) =>
    LET sections == SectionsOf(r)
    IN  \A i \in DOMAIN sections : \A j \in DOMAIN sections :
          i < j =>
            LET a == parseCollectionName(sections[i].name)
                b == parseCollectionName(sections[j].name)
            IN  /\ localeCompare(a.domain, b.domain) <= 0
                /\ a.domain = b.domain =>
                     LayerRank(a.layerType) <= LayerRank(b.layerType)

RECURSIVE rediscoveredVariables(_, _, _, _)
rediscoveredVariables(r, order, reversed, n) ==
  IF n = 0 THEN <<>>
  ELSE LET group == groupByCollection(allVariables[r], collections[r][order[n]].id)
       IN  rediscoveredVariables(r, order, reversed, n - 1)
             \o (IF reversed THEN Reverse(group) ELSE group)

IsRounded(c, num, den) ==
  /\ 2 * c * den <= 2 * num + den
  /\ 2 * num + den < 2 * (c + 1) * den

\* The breakpoint collection of the document and the width of each of its
\* modes under the widths of the request.
WidthOf(r, mode) ==
  detectBreakpoint(ExpectedWidths(script[r].breakpoints), mode.name).px
WidestMode(r) ==
  CHOOSE m \in Range(collections[r][1].modes) :
    \A n \in Range(collections[r][1].modes) : WidthOf(r, m) >= WidthOf(r, n)
NarrowestMode(r) ==
  CHOOSE m \in Range(collections[r][1].modes) :
    \A n \in Range(collections[r][1].modes) : WidthOf(r, m) <= WidthOf(r, n)

\* The linear clamp is the form of v: a number in every mode, with values
\* that differ across the modes, not a grid proportion, not opted into
\* min() or the piecewise clamp, and not unitless with equal extremes.
LinearClampApplies(r, v) ==
  LET raw == doc.variables[v.id].valuesByMode
  IN  /\ options[r].outputMode = "fluid"
      /\ v.resolvedType = "FLOAT"
      /\ \A m \in DOMAIN raw : raw[m].tag = "number"
      /\ \E m \in DOMAIN raw : \E n \in DOMAIN raw : raw[m].n # raw[n].n
      /\ v.columnCount = 0
      /\ v.cssName \notin options[r].viewportRelativeOverrides
      /\ v.cssName \notin options[r].nonLinearOverrides
      /\ ~(v.unitless /\ raw[WidestMode(r).modeId].n = raw[NarrowestMode(r).modeId].n)

C10_ProportionAlwaysColumnCount ==
  \A r \in Requests : Done(r) =>
    \A v \in Collected(r) :
      v.columnCount # 0 =>
        /\ \E i \in DeclsOf(r) :
              /\ Css(r)[i].src = v.id
              /\ Css(r)[i].sel = "root"
              /\ Css(r)[i].name = v.cssName
              /\ Css(r)[i].value = CssColumns(v.columnCount)
        /\ \E i \in DeclsOf(r) :
              /\ Css(r)[i].src = v.id
              /\ Css(r)[i].sel = "root"
              /\ Css(r)[i].name = v.cssName \o FrSuffix
              /\ Css(r)[i].value = CssFr(v.columnCount)

(***************************************************************************)
(* Properties of names (SpecNames)                                         *)
(***************************************************************************)
W_threeQuarters == <<"t", "h", "r", "e", "e", "-", "q", "u", "a", "r", "t", "e", "r", "s">>
W_twoThirds == <<"t", "w", "o", "-", "t", "h", "i", "r", "d", "s">>
W_quarter == <<"q", "u", "a", "r", "t", "e", "r">>
W_whole == <<"w", "h", "o", "l", "e">>
W_third == <<"t", "h", "i", "r", "d">>
W_half == <<"h", "a", "l", "f">>
W_threeQuarter == <<"t", "h", "r", "e", "e", "-", "q", "u", "a", "r", "t", "e", "r">>
W_threeQuarterSpaced == <<"t", "h", "r", "e", "e", " ", "q", "u", "a", "r", "t", "e", "r">>
W_threequarter == <<"t", "h", "r", "e", "e", "q", "u", "a", "r", "t", "e", "r">>
W_twoThird == <<"t", "w", "o", "-", "t", "h", "i", "r", "d">>
W_twoThirdSpaced == <<"t", "w", "o", " ", "t", "h", "i", "r", "d">>
W_twothird == <<"t", "w", "o", "t", "h", "i", "r", "d">>

\* The vocabulary, the longest word first.
ProportionWords ==
  << [word |-> W_threeQuarters, columns |-> 9],
     [word |-> W_twoThirds, columns |-> 8],
     [word |-> W_quarter, columns |-> 3],
     [word |-> W_whole, columns |-> 12],
     [word |-> W_third, columns |-> 4],
     [word |-> W_half, columns |-> 6] >>

\* C11 as stated: every variable name that contains a word of the vocabulary
\* maps to the column count of the longest word it contains.
C11_EveryNameWithAWordMaps ==
  \A r \in Requests : Done(r) =>
    \A v \in Collected(r) :
      LET lower == toLowerCase(v.name)
          hits  == { i \in DOMAIN ProportionWords :
                       Contains(lower, ProportionWords[i].word) }
      IN  hits # {} =>
            v.columnCount =
              ProportionWords[CHOOSE i \in hits : \A j \in hits : i <= j].columns

\* The column count of a name that holds "proportion" and not "viewport":
\* the first of three-quarter(s), two-third(s) (each with a hyphen, a blank
\* or nothing between the two words), quarter, whole, third, half that the
\* name contains; 0 for no column count.
ExpectedColumns(lower) ==
  IF ~Contains(lower, KW_proportion) \/ Contains(lower, KW_viewport) THEN 0
  ELSE IF \/ Contains(lower, W_threeQuarter)
          \/ Contains(lower, W_threeQuarterSpaced)
          \/ Contains(lower, W_threequarter) THEN 9
  ELSE IF \/ Contains(lower, W_twoThird)
          \/ Contains(lower, W_twoThirdSpaced)
          \/ Contains(lower, W_twothird) THEN 8
  ELSE IF Contains(lower, W_quarter) THEN 3
  ELSE IF Contains(lower, W_whole) THEN 12
  ELSE IF Contains(lower, W_third) THEN 4
  ELSE IF Contains(lower, W_half) THEN 6
  ELSE 0

\* C11: a variable name that holds "proportion" and not "viewport" maps to
\* the column count of the longest word of the vocabulary it contains (12,
\* 9, 8, 6, 4, 3 for whole, three-quarters, two-thirds, half, third,
\* quarter, the two-word ones in any of their spellings), so a name with
\* "three-quarters" maps to 9 and not to the 3 of "quarter"; every other
\* name maps to no column count.  In a breakpoint collection the count is
\* what the default block declares.
C11_ProportionNameMapsToColumns ==
  \A r \in Requests : Done(r) =>
    \A v \in Collected(r) :
      LET expected == ExpectedColumns(toLowerCase(v.name))
      IN  /\ v.columnCount = expected
          /\ (expected # 0 /\ Len(collections[r][1].modes) = 2)
               => \E i \in DeclsOf(r) :
                     /\ Css(r)[i].src = v.id
                     /\ Css(r)[i].sel = "root"
                     /\ Css(r)[i].value = CssColumns(expected)
          /\ expected = 0
               => \A i \in DeclsOf(r) : Css(r)[i].value.k # "columns"

\* A generation has ended over grid/proportions/three-quarters, which holds
\* both "three-quarters" and "quarter", with 9 declared in the default block.
C11_ThreeQuartersDeclaredNine ==
  \E r \in Requests :
     /\ Done(r)
     /\ \E v \in Collected(r) :
          /\ Contains(toLowerCase(v.name), W_threeQuarters)
          /\ Contains(toLowerCase(v.name), W_quarter)
          /\ v.columnCount = 9
          /\ \E i \in DeclsOf(r) : Css(r)[i].src = v.id /\ Css(r)[i].value = CssColumns(9)

\* The variable holds the same number in every mode.
NoVariance(v) ==
  LET raw == doc.variables[v.id].valuesByMode
  IN  \A m \in DOMAIN raw : \A n \in DOMAIN raw :
         raw[m].tag = "number" /\ raw[m] = raw[n]

\* The declarations of v in the default block are one declaration, of the
\* literal of every mode, rounded to two places, with the unit of v.
DefaultBlockHoldsLiteral(r, v) ==
  LET raw   == doc.variables[v.id].valuesByMode
      decls == { i \in DeclsOf(r) : Css(r)[i].sel = "root" /\ Css(r)[i].src = v.id }
  IN  /\ Cardinality(decls) = 1
      /\ \A i \in decls : \A m \in DOMAIN raw :
            /\ Css(r)[i].name = v.cssName
            /\ Css(r)[i].value.k = "number"
            /\ Css(r)[i].value.u = (IF v.unitless THEN "" ELSE "px")
            /\ IsRounded(Css(r)[i].value.a, raw[m].n, 10)

\* C13 as stated: every non-alias variable with no variance across modes is
\* declared in the default block with the formatted literal of each mode.
C13_NoVarianceDeclaredAsLiteral ==
  \A r \in Requests : Done(r) =>
    \A v \in Collected(r) : NoVariance(v) => DefaultBlockHoldsLiteral(r, v)

\* C13: a non-alias variable with no variance across modes whose name is not
\* detected as a grid proportion is declared in the default block with the
\* formatted literal of each of its modes, in fluid and fixed output, for
\* either breakpoint direction and any order of the modes.
C13_NoVarianceNonProportionAsLiteral ==
  \A r \in Requests : Done(r) =>
    \A v \in Collected(r) :
      (NoVariance(v) /\ v.columnCount = 0) => DefaultBlockHoldsLiteral(r, v)

\* A mobile-first fluid generation has ended over a collection the host
\* lists as Mobile, Desktop, with heights/1 = 32 in both modes declared as
\* `32px` in the default block.
C13_ConstantDeclaredOnce ==
  \E r \in Requests :
     /\ Done(r)
     /\ options[r].outputMode = "fluid"
     /\ options[r].breakpointDirection = "mobile-first"
     /\ collections[r][1].modes[1].name = N_Mobile
     /\ \E v \in Collected(r) :
          /\ NoVariance(v)
          /\ v.columnCount = 0
          /\ \E i \in DeclsOf(r) :
                /\ Css(r)[i].src = v.id
                /\ Css(r)[i].sel = "root"
                /\ Css(r)[i].value = CssNumber(3200, "px")

(***************************************************************************)
(* Properties of mode classification and of missing values (SpecModes)     *)
(***************************************************************************)
\* The mode type the output pass derives for collection c.
ModeTypeIn(r, c) == modeTypeOf(ExpectedWidths(script[r].breakpoints), c)

NamedAfterWidth(mode) ==
  \E key \in Range(BreakpointKeys) :
     Contains(toLowerCase(mode.name), BreakpointKeyword(key))
NamedAfterTheme(mode) ==
  Contains(toLowerCase(mode.name), KW_light) \/ Contains(toLowerCase(mode.name), KW_dark)

\* The section of c declares values of its first mode only, in one block.
OnlyFirstModeDeclared(r, c) ==
  \A i \in DOMAIN Css(r) :
     Css(r)[i].coll = c.id =>
       /\ Css(r)[i].t = "block" => Css(r)[i].sel = "root"
       /\ Css(r)[i].t = "decl" => Css(r)[i].mode = c.modes[1].modeId

\* C14 as stated: a collection is classified single if and only if it has
\* exactly one mode.
C14_SingleIffOneMode ==
  \A r \in Requests : Done(r) =>
    \A c \in Range(collections[r]) :
      ModeTypeIn(r, c) = "single" <=> Len(c.modes) = 1

\* C14: a collection with exactly one mode is classified single, and so is
\* a collection of several modes that are neither all named after widths
\* nor any of them named after a theme; no other collection is.  A
\* collection classified single gets one block with the values of its
\* first mode.
C14_SingleIffOneModeOrUnrecognised ==
  \A r \in Requests : Done(r) =>
    \A c \in Range(collections[r]) :
      /\ ModeTypeIn(r, c) = "single"
           <=> \/ Len(c.modes) = 1
               \/ /\ \E m \in Range(c.modes) : ~NamedAfterWidth(m)
                  /\ \A m \in Range(c.modes) : ~NamedAfterTheme(m)
      /\ ModeTypeIn(r, c) = "single" => OnlyFirstModeDeclared(r, c)

\* A generation has ended over a collection with the modes Mode 1 and
\* Mode 2, classified single, with a value of Mode 1 declared and none of
\* Mode 2.
C14_TwoUnrecognisedModesSingle ==
  \E r \in Requests :
     /\ Done(r)
     /\ \E c \in Range(collections[r]) :
          /\ Len(c.modes) = 2
          /\ ModeTypeIn(r, c) = "single"
          /\ \E i \in DeclsOf(r) : Css(r)[i].mode = c.modes[1].modeId
          /\ \A i \in DeclsOf(r) : Css(r)[i].mode # c.modes[2].modeId

\* Collection c is emitted mode by mode: a breakpoint collection in fixed
\* output, or a theme collection with a light and a dark mode.
EmittedModeByMode(r, c) ==
  \/ ModeTypeIn(r, c) = "breakpoint" /\ options[r].outputMode = "fixed"
  \/ /\ ModeTypeIn(r, c) = "theme"
     /\ \E m \in Range(c.modes) : Contains(toLowerCase(m.name), KW_light)
     /\ \E m \in Range(c.modes) : Contains(toLowerCase(m.name), KW_dark)

\* C15: in a collection emitted mode by mode, every mode in which a variable
\* holds a number is declared for that variable, whether or not the
\* variable's value in another mode is missing or malformed.
C15_ModesWithAValueStillDeclared ==
  \A r \in Requests : Done(r) =>
    \A c \in Range(collections[r]) : EmittedModeByMode(r, c) =>
      \A v \in Collected(r) : \A m \in Range(c.modes) :
        (v.collectionId = c.id /\ doc.variables[v.id].valuesByMode[m.modeId].tag = "number")
          => \E i \in DeclsOf(r) :
                /\ Css(r)[i].src = v.id
                /\ Css(r)[i].mode = m.modeId
                /\ Css(r)[i].value =
                     CssNumber(round2(doc.variables[v.id].valuesByMode[m.modeId].n), "px")

(***************************************************************************)
(* The piecewise clamp (SpecFluid)                                         *)
(***************************************************************************)
\* The mode of the breakpoint collection with the id modeId.
ModeOfId(r, modeId) ==
  CHOOSE m \in Range(collections[r][1].modes) : m.modeId = modeId

\* v is a number of the four-mode collection Desktop, Laptop, Tablet,
\* Mobile, with values that differ across the modes, opted into the
\* piecewise clamp in fluid output and into nothing else.
PiecewiseApplies(r, v) ==
  LET raw == doc.variables[v.id].valuesByMode
  IN  /\ options[r].outputMode = "fluid"
      /\ v.resolvedType = "FLOAT"
      /\ DOMAIN raw = {"d", "l", "t", "m"}
      /\ \A m \in DOMAIN raw : raw[m].tag = "number"
      /\ \E m \in DOMAIN raw : \E n \in DOMAIN raw : raw[m].n # raw[n].n
      /\ v.columnCount = 0
      /\ v.cssName \in options[r].nonLinearOverrides
      /\ v.cssName \notin options[r].viewportRelativeOverrides

\* The block (sel, px) declares v as the clamp between its values in the
\* modes upper and lower (ids, upper the wider one).
SegmentDeclared(r, v, sel, px, upper, lower) ==
  LET raw    == doc.variables[v.id].valuesByMode
      maxPx  == WidthOf(r, ModeOfId(r, upper))
      minPx  == WidthOf(r, ModeOfId(r, lower))
      maxVal == raw[upper].n
      minVal == raw[lower].n
      lo     == IF minVal < maxVal THEN minVal ELSE maxVal
      hi     == IF minVal < maxVal THEN maxVal ELSE minVal
  IN  \E i \in DeclsOf(r) :
        LET value == Css(r)[i].value
        IN  /\ Css(r)[i].src = v.id
            /\ Css(r)[i].sel = sel
            /\ Css(r)[i].px = px
            /\ Css(r)[i].name = v.cssName
            /\ value.k = "clamp"
            /\ IsRounded(value.a, lo, 10)
            /\ IsRounded(value.d, hi, 10)
            /\ IsRounded(value.c, 1000 * (maxVal - minVal), maxPx - minPx)
            /\ IsRounded(value.b,
                         minVal * (maxPx - minPx) - (maxVal - minVal) * minPx,
                         10 * (maxPx - minPx))

\* The declarations of v in the default block and the piecewise blocks.
SegmentsOf(r, v) ==
  { i \in DeclsOf(r) :
      /\ Css(r)[i].src = v.id
      /\ Css(r)[i].sel \in {"root", "piecewise-max-width", "piecewise-min-width"} }

\* C16: a variable opted into the piecewise clamp in a four-mode breakpoint
\* collection gets exactly three segments, one per adjacent pair of modes:
\* desktop-first, Desktop-Laptop in the default block, Laptop-Tablet under
\* max-width (Desktop - 1) and Tablet-Mobile under max-width (Laptop - 1);
\* mobile-first, Mobile-Tablet in the default block, Tablet-Laptop under
\* min-width Tablet and Laptop-Desktop under min-width Laptop.
C16_ThreeSegmentsInDirection ==
  \A r \in Requests : Done(r) =>
    \A v \in Collected(r) :
      PiecewiseApplies(r, v) =>
        /\ Cardinality(SegmentsOf(r, v)) = 3
        /\ IF options[r].breakpointDirection = "mobile-first"
             THEN /\ SegmentDeclared(r, v, "root", 0, "t", "m")
                  /\ SegmentDeclared(r, v, "piecewise-min-width",
                                     WidthOf(r, ModeOfId(r, "t")), "l", "t")
                  /\ SegmentDeclared(r, v, "piecewise-min-width",
                                     WidthOf(r, ModeOfId(r, "l")), "d", "l")
             ELSE /\ SegmentDeclared(r, v, "root", 0, "d", "l")
                  /\ SegmentDeclared(r, v, "piecewise-max-width",
                                     WidthOf(r, ModeOfId(r, "d")) - 1, "l", "t")
                  /\ SegmentDeclared(r, v, "piecewise-max-width",
                                     WidthOf(r, ModeOfId(r, "l")) - 1, "t", "m")

(***************************************************************************)
(* The generated identifiers (SpecNames)                                   *)
(***************************************************************************)
\* id is "--" followed by a non-empty name of the characters a-z, 0-9 and
\* "-" that neither starts nor ends with a hyphen.
IsCleanIdentifier(id) ==
  /\ Len(id) > 2
  /\ id[1] = Hyphen /\ id[2] = Hyphen
  /\ \A i \in 3..Len(id) : IsCssChar(id[i])
  /\ id[3] # Hyphen
  /\ id[Len(id)] # Hyphen

\* C17: for every collection name and variable name, the generated
\* identifier is "--" followed by a name made only of a-z, 0-9 and "-" that
\* neither starts nor ends with a hyphen.
C17_IdentifiersAreClean ==
  \A r \in Requests : Done(r) =>
    \A v \in Collected(r) : IsCleanIdentifier(v.cssName)

(***************************************************************************)
(* The processed values (SpecModes)                                        *)
(***************************************************************************)
HasAliasTarget(value) == value.isAlias /\ value.aliasId # ""
HasLiteral(value) == value.resolved # ResolvedNull

IsAliasOrTyped(rawValue, type) ==
  \/ rawValue.tag = "alias"
  \/ type = "COLOR" /\ rawValue.tag = "color"
  \/ type = "FLOAT" /\ rawValue.tag = "number"
  \/ type = "STRING" /\ rawValue.tag = "string"
  \/ type = "BOOLEAN"

DefaultModeIdOf(r, v) ==
  IF /\ options[r].breakpointDirection = "mobile-first"
     /\ \E c \in Range(doc.collections) :
           c.id = v.collectionId /\ ModeTypeIn(r, c) = "breakpoint"
    THEN v.modeIds[Len(v.modeIds)]
    ELSE v.modeIds[1]

\* The gate skipped v in the default block of its collection: v is not
\* declared there, and its value in the default mode is an alias to itself
\* or, v being outside foundations, another variable has declared its
\* identifier.
SkippedInDefaultBlock(r, v) ==
  /\ \A i \in DeclsOf(r) : ~(Css(r)[i].src = v.id /\ Css(r)[i].sel = "root")
  /\ \/ /\ v.valuesByMode[DefaultModeIdOf(r, v)].isAlias
        /\ v.valuesByMode[DefaultModeIdOf(r, v)].aliasName = v.cssName
     \/ /\ v.layerType # "foundations"
        /\ \E i \in DeclsOf(r) :
              /\ Css(r)[i].name = v.cssName
              /\ Css(r)[i].src # v.id
              /\ Css(r)[i].sel = "root"

\* C19: in every emission strategy, a variable the dedup/circular-skip gate
\* skipped in its collection's default block is declared in no later block
\* of that collection (width media-query blocks, prefers-color-scheme
\* blocks, data-theme blocks).
C19_SkippedNeverRedeclared ==
  \A r \in Requests : Done(r) =>
    \A v \in Range(resolveAliasNames(allVariables[r])) :
      SkippedInDefaultBlock(r, v) =>
        \A i \in DeclsOf(r) : Css(r)[i].src # v.id

(***************************************************************************)
(* Requests suspended on a host read (SpecRequests)                        *)
(***************************************************************************)
\* The widths in effect for request r: the table as the messages of the
\* requests up to r, handled in their order, leave it.
RECURSIVE WidthsInEffect(_)
WidthsInEffect(r) ==
  IF r = 0 THEN BREAKPOINT_MODES_INITIAL
  ELSE LET before == WidthsInEffect(r - 1)
       IN  [key \in DOMAIN before |->
              IF script[r].breakpoints[key] # 0 THEN script[r].breakpoints[key]
              ELSE before[key]]

\* C20: when a later generate request is handled while an earlier one is
\* suspended on a host read, the output of the earlier one (mode
\* classification, clamp end points, media-query thresholds) is the output
\* under the widths that were in effect for it, not those the later one set.
C20_EarlierRequestKeepsItsWidths ==
  \A r \in Requests : Done(r) =>
    Css(r) = generateCSSOutput(WidthsInEffect(r),
                               resolveAliasNames(allVariables[r]),
                               collections[r], options[r]).lines

(***************************************************************************)
(* The width blocks (SpecMedia)                                            *)
(***************************************************************************)
\* The modes of the breakpoint collection have pairwise distinct widths.
DistinctWidths(r) ==
  \A m \in Range(collections[r][1].modes) : \A n \in Range(collections[r][1].modes) :
     m # n => WidthOf(r, m) # WidthOf(r, n)

\* The formatted values of v differ across its modes.
Varies(r, v) ==
  \E m \in DOMAIN v.valuesByMode : \E n \in DOMAIN v.valuesByMode :
     formatCSSValue(v.valuesByMode[m], v, options[r])
       # formatCSSValue(v.valuesByMode[n], v, options[r])

\* v is rendered through width media queries: any variable but a grid
\* proportion in fixed output; in fluid output one whose formatted values
\* differ and that is not a number or holds an alias in some mode.
MediaDriven(r, v) ==
  IF options[r].outputMode = "fluid"
    THEN /\ Varies(r, v)
         /\ \/ v.resolvedType # "FLOAT"
            \/ \E m \in DOMAIN v.valuesByMode : v.valuesByMode[m].isAlias
    ELSE v.columnCount = 0

\* The width blocks of the output, by position.
WidthBlocks(r) ==
  { i \in DOMAIN Css(r) :
      Css(r)[i].t = "block" /\ Css(r)[i].sel \in {"max-width", "min-width"} }

\* The threshold of the width block of mode m: desktop-first the width of
\* the next larger mode minus 1, mobile-first the width of m.
ThresholdOf(r, m) ==
  IF options[r].breakpointDirection = "mobile-first" THEN WidthOf(r, m)
  ELSE LET larger == { WidthOf(r, n) : n \in { k \in Range(collections[r][1].modes) :
                                                 WidthOf(r, k) > WidthOf(r, m) } }
       IN  (CHOOSE w \in larger : \A x \in larger : w <= x) - 1

FallbackApplies(r, v) ==
  /\ options[r].outputMode = "fluid"
  /\ options[r].includeLegacyFallbacks
  /\ Varies(r, v)
  /\ ~MediaDriven(r, v)
  /\ v.columnCount = 0
  /\ v.cssName \notin options[r].viewportRelativeOverrides

\* The declarations inside the guarded fallback block.
FallbackDecls(r) ==
  { i \in DeclsOf(r) :
      Css(r)[i].sel \in {"supports", "fallback-max-width", "fallback-min-width"} }

\* C22: with the legacy fallback enabled in fluid output, the guarded
\* fallback block holds, for every clampable variable with mode variance
\* (grid proportions and viewport-relative ones aside) and every mode in
\* which the variable has a value, a declaration of that mode's literal.
C22_FallbackHoldsEveryMode ==
  \A r \in Requests : Done(r) =>
    \A v \in Range(resolveAliasNames(allVariables[r])) :
      FallbackApplies(r, v) =>
        \A m \in DOMAIN v.valuesByMode :
          formatCSSValue(v.valuesByMode[m], v, options[r]) # CssNull =>
            \E i \in FallbackDecls(r) :
               /\ Css(r)[i].src = v.id
               /\ Css(r)[i].mode = m
               /\ Css(r)[i].value = formatCSSValue(v.valuesByMode[m], v, options[r])

(***************************************************************************)
(* The theme blocks (SpecThemes)                                           *)
(***************************************************************************)
\* The output has a block with the selector sel.
HasBlock(r, sel) ==
  \E i \in DOMAIN Css(r) : Css(r)[i].t = "block" /\ Css(r)[i].sel = sel

\* The collection has a mode named after light and one named after dark.
HasLightAndDark(r) ==
  /\ \E m \in Range(collections[r][1].modes) : Contains(toLowerCase(m.name), KW_light)
  /\ \E m \in Range(collections[r][1].modes) : Contains(toLowerCase(m.name), KW_dark)

\* C23: in a theme collection with both a light and a dark mode, the
\* [data-theme="light"] and [data-theme="dark"] blocks are emitted exactly
\* when darkModeOutput is class or both, and the prefers-color-scheme pair
\* exactly when it is prefers-color-scheme or both.
C23_ThemeBlocksFollowDarkModeOutput ==
  \A r \in Requests : (Done(r) /\ HasLightAndDark(r)) =>
    /\ HasBlock(r, "data-light") <=> options[r].darkModeOutput \in {"class", "both"}
    /\ HasBlock(r, "data-dark") <=> options[r].darkModeOutput \in {"class", "both"}
    /\ HasBlock(r, "prefers-light")
         <=> options[r].darkModeOutput \in {"prefers-color-scheme", "both"}
    /\ HasBlock(r, "prefers-dark")
         <=> options[r].darkModeOutput \in {"prefers-color-scheme", "both"}

(***************************************************************************)
(* The two sets of the fluid output (SpecMedia)                            *)
(***************************************************************************)
\* The declarations of v in the block sel, whatever its threshold.
DeclsIn(r, v, sels) ==
  { i \in DeclsOf(r) : Css(r)[i].src = v.id /\ Css(r)[i].sel \in sels }

\* C24: in fluid output every variable that passes the skip gate is in
\* exactly one of two sets: it is media-query-driven (declared as the
\* formatted value of the default mode and again in the width blocks)
\* exactly when its formatted values differ across the modes and it is not
\* a number or holds an alias in some mode; in every other case it is
\* clampable (declared once, in the default block only).
C24_MediaDrivenOrClampable ==
  \A r \in Requests : (Done(r) /\ options[r].outputMode = "fluid") =>
    \A v \in Range(resolveAliasNames(allVariables[r])) :
      /\ Cardinality(DeclsIn(r, v, {"root"})) = 1
      /\ DeclsIn(r, v, {"max-width", "min-width"}) # {} <=> MediaDriven(r, v)
      /\ MediaDriven(r, v) =>
           /\ DeclsIn(r, v, {"supports", "fallback-max-width", "fallback-min-width",
                             "piecewise-max-width", "piecewise-min-width"}) = {}
           /\ \A i \in DeclsIn(r, v, {"root"}) :
                Css(r)[i].value =
                  formatCSSValue(v.valuesByMode[Css(r)[i].mode], v, options[r])

\* A fluid generation has put heights/1 in the clampable set (a clamp in
\* the default block) and gap, an alias in one mode only, and the text,
\* which differs, in the media-query set.
C24_BothSetsPopulated ==
  \E r \in Requests :
     /\ Done(r)
     /\ options[r].outputMode = "fluid"
     /\ \E v \in Range(resolveAliasNames(allVariables[r])) :
          /\ v.id = "G"
          /\ \E m \in DOMAIN v.valuesByMode : v.valuesByMode[m].isAlias
          /\ \E m \in DOMAIN v.valuesByMode : ~v.valuesByMode[m].isAlias
          /\ DeclsIn(r, v, {"max-width", "min-width"}) # {}
     /\ \E v \in Range(resolveAliasNames(allVariables[r])) :
          /\ v.id = "T"
          /\ DeclsIn(r, v, {"max-width", "min-width"}) = {}
          /\ \E i \in DeclsIn(r, v, {"root"}) : Css(r)[i].value.k = "clamp"
     /\ \E v \in Range(resolveAliasNames(allVariables[r])) :
          /\ v.id = "S"
          /\ DeclsIn(r, v, {"max-width", "min-width"}) # {}

(***************************************************************************)
(* Identifiers shared by collections (SpecShared)                          *)
(***************************************************************************)
\* C25: after generation no identifier is declared in the default block of
\* more than one collection.
C25_DefaultBlocksShareNoIdentifier ==
  \A r \in Requests : Done(r) =>
    \A i \in DeclsOf(r) : \A j \in DeclsOf(r) :
      (/\ Css(r)[i].sel = "root"
       /\ Css(r)[j].sel = "root"
       /\ Css(r)[i].name = Css(r)[j].name)
        => Css(r)[i].coll = Css(r)[j].coll


(***************************************************************************)
(* The two directions (SpecMedia)                                          *)
(***************************************************************************)
\* The output of request r had its message asked for the other direction.
OtherDirectionCss(r) ==
  generateCSSOutput(ExpectedWidths(script[r].breakpoints),
                    resolveAliasNames(allVariables[r]), collections[r],
                    [options[r] EXCEPT !.breakpointDirection =
                       IF @ = "mobile-first" THEN "desktop-first"
                       ELSE "mobile-first"]).lines

\* The declarations of the custom property name in lines that apply at the
\* viewport width w: those of :root, of @media (max-width: px) with w <= px
\* and of @media (min-width: px) with w >= px.
Applying(lines, name, w) ==
  { i \in DOMAIN lines :
      /\ lines[i].t = "decl"
      /\ lines[i].name = name
      /\ \/ lines[i].sel = "root"
         \/ lines[i].sel = "max-width" /\ w <= lines[i].px
         \/ lines[i].sel = "min-width" /\ w >= lines[i].px }

\* The value in force at the viewport width w: the last declaration that
\* applies wins.
InForce(lines, name, w) ==
  LET hits == Applying(lines, name, w)
  IN  IF hits = {} THEN CssNull
      ELSE lines[CHOOSE i \in hits : \A j \in hits : j <= i].value

\* The viewport widths around the widths of the modes; between two of them
\* no media query of either output changes its verdict.
ViewportWidths(r) ==
  {0} \cup UNION { { WidthOf(r, m) + delta : delta \in {-2, -1, 0, 1} } :
                     m \in Range(collections[r][1].modes) }

DeclaredInRoot(lines, name) ==
  \E i \in DOMAIN lines :
     lines[i].t = "decl" /\ lines[i].name = name /\ lines[i].sel = "root"

\* C27: for a variable rendered through width media queries (fixed output,
\* or the media-query set of fluid output) that has a value in every mode
\* and is declared in the default block in both directions, in a
\* collection whose modes have pairwise distinct widths, the value in
\* force at every viewport width is the same in the mobile-first and in
\* the desktop-first output.
C27_SameValueInBothDirections ==
  \A r \in Requests : (Done(r) /\ DistinctWidths(r)) =>
    \A v \in Range(resolveAliasNames(allVariables[r])) :
       ( /\ MediaDriven(r, v)
         /\ \A m \in DOMAIN v.valuesByMode :
              formatCSSValue(v.valuesByMode[m], v, options[r]) # CssNull
         /\ DeclaredInRoot(Css(r), v.cssName)
         /\ DeclaredInRoot(OtherDirectionCss(r), v.cssName) )
       => \A w \in ViewportWidths(r) :
             InForce(Css(r), v.cssName, w) = InForce(OtherDirectionCss(r), v.cssName, w)

\* A fixed mobile-first generation over Desktop, Laptop, Tablet, Mobile at
\* the widths 1680, 1366, 840, 480: heights/1 is 28px at the viewport width
\* 1365 and 30px at 1366 in this output and in the desktop-first one.
C27_TabletThenLaptop ==
  \E r \in Requests :
     /\ Done(r)
     /\ DistinctWidths(r)
     /\ options[r].outputMode = "fixed"
     /\ options[r].breakpointDirection = "mobile-first"
     /\ Len(collections[r][1].modes) = 4
     /\ \E v \in Range(allVariables[r]) :
          /\ v.id = "T"
          /\ InForce(Css(r), v.cssName, 1365) = CssNumber(2800, "px")
          /\ InForce(OtherDirectionCss(r), v.cssName, 1365) = CssNumber(2800, "px")
          /\ InForce(Css(r), v.cssName, 1366) = CssNumber(3000, "px")
          /\ InForce(OtherDirectionCss(r), v.cssName, 1366) = CssNumber(3000, "px")

\* C28: in a collection classified as breakpoint the two modes used as
\* the end points of a clamp have different widths, so that no emitted
\* clamp has a slope or an intercept that is not finite, whatever the mode
\* names and the widths the message supplies.
C28_EveryClampIsFinite ==
  \A r \in Requests :
    (Done(r) /\ ModeTypeIn(r, collections[r][1]) = "breakpoint") =>
      \A i \in DeclsOf(r) :
         /\ Css(r)[i].value.k # "clamp-nonfinite"
         /\ Css(r)[i].value.k = "clamp" =>
              WidthOf(r, WidestMode(r)) # WidthOf(r, NarrowestMode(r))

(***************************************************************************)
(* The reported piecewise identifiers (SpecFluid)                          *)
(***************************************************************************)
\* The declarations of the identifier name in the blocks of selector sels.
DeclsOfName(r, name, sels) ==
  { i \in DeclsOf(r) : Css(r)[i].name = name /\ Css(r)[i].sel \in sels }

\* C30: every identifier reported in nonLinearVars has all of its piecewise
\* segments emitted: one in the default block and one in a width block for
\* each remaining adjacent pair of modes, whatever other override list
\* holds the identifier.
C30_ReportedHasAllSegments ==
  \A r \in Requests : Done(r) =>
    \A n \in DOMAIN posted[r].nonLinearVars :
       LET name == posted[r].nonLinearVars[n]
       IN  /\ DeclsOfName(r, name, {"root"}) # {}
           /\ Cardinality(DeclsOfName(r, name,
                                      {"piecewise-max-width", "piecewise-min-width"}))
                = Len(collections[r][1].modes) - 2

(***************************************************************************)
(* C26 (SpecStyles)                                                        *)
(***************************************************************************)
\* The CSS of request r has been emitted and its result is not posted yet.
Emitting(r) == css[r].type # "none" /\ posted[r].type = "none"

\* C26: within one generate request, once the CSS has been emitted the
\* handler is never suspended at a read from the host (collections,
\* variables or text styles) before its result is posted.
C26_NoReadAfterEmission ==
  \A r \in Requests : Emitting(r) => pc[r] \notin HostReads

(***************************************************************************)
(* C29 (SpecReplies)                                                       *)
(***************************************************************************)
Replied(r) == posted[r].type \in {"css-generated", "error"}

\* C29: every generate-css message that has been received eventually gets
\* a reply, css-generated or error, and a reply once posted is never
\* followed by another one for the same message, provided every pending
\* read from the host eventually returns or rejects.
C29_ExactlyOneReply ==
  /\ \A r \in Requests : (pc[r] # "idle") ~> Replied(r)
  /\ [][\A r \in Requests : Replied(r) => posted'[r] = posted[r]]_vars

\* The first message was answered with an error after its CSS had been
\* emitted, the second one with css-generated that holds a text style.
C29_ErrorAndCssGenerated ==
  /\ posted[1].type = "error" /\ css[1].type = "css-generated"
  /\ posted[2].type = "css-generated" /\ posted[2].textStyleCount > 0
  /\ \E i \in DOMAIN posted[2].css : posted[2].css[i].t = "textstyle"


=============================================================================
